---- MODULE Spec2Model ----
(***************************************************************************)
(* A model of stm32sprog: the sparse firmware image (sparse-buffer.c, a    *)
(* skip list of memory blocks) and the STM32 bootloader protocol driver    *)
(* (stm32sprog.c over serial.c).                                           *)
(***************************************************************************)
EXTENDS Integers, Sequences, FiniteSets, TLC

(***************************************************************************)
(* Bounds of the model.                                                    *)
(***************************************************************************)
\* size_t arithmetic is modular; the model keeps a 28-bit word, wide enough
\* for the flash addresses: values are taken modulo SizeMod.
SizeMod == 268435456
\* Under Spec, blocks handed to SparseBuffer_set have offset in 0..MaxOffset
\* and length in 1..MaxLen, and there are at most MaxInserts calls in a run.
MaxOffset == 3
MaxLen == 2
MaxInserts == 3
\* Under SpecDeep (inserts only) the blocks are wider and the runs longer.
DeepOffset == 4
DeepLen == 3
DeepInserts == 4
\* Height of the skip list (MAX_HEIGHT in the source is 16; the search and
\* the links are the same for every height).
MaxHeight == 2
\* SparseBuffer_offset is called with a delta in -MaxDelta..MaxDelta, at most
\* MaxShifts times in one run.
MaxDelta == 1
MaxShifts == 2
\* SparseBuffer_read is called with a length in 0..ChunkLen; ChunkLen stands
\* for the MAX_BLOCK_SIZE of the write and verify loops.
ChunkLen == 2
\* The blocks handed to overlap and to Node_addData on their own have offset
\* and length in 0..MaxSpan.
MaxSpan == 5
\* Files of up to MaxFile bytes are held whole.
MaxFile == 4096
\* A command line has at most MaxArgs options.
MaxArgs == 2

(***************************************************************************)
(* Values.                                                                 *)
(***************************************************************************)
\* The null pointer, and the node SparseBuffer_create allocates for
\* self->begin.  The other nodes are 2..MaxInserts+1.
NULL == 0
begin == 1
NodeIds == 2..(DeepInserts + MaxInserts + 1)
\* What curr holds after the node it designates has been freed.
Dangling == 0 - 1
\* A byte whose value is indeterminate (read through a dangling pointer or
\* never written).
Junk == 0 - 1
Levels == 0..(MaxHeight - 1)

\* The bytes the k-th SparseBuffer_set call supplies: every byte of every
\* call is distinct, so a misplaced or stale byte shows.
Payload(k, len) == [i \in 1..len |-> k * SizeMod + (i - 1)]

VARIABLES
    \* sparse-buffer.c
    nodes,      \* the live nodes: id -> [block, ptr, height, prev, next]
    curr,       \* self->curr
    pos,        \* self->offset
    aborted,    \* abort() was called
    lastRead,   \* what the last SparseBuffer_read returned
    \* ghosts
    nset,       \* number of SparseBuffer_set calls so far
    nshift,     \* number of SparseBuffer_offset calls so far
    written,    \* written address -> the byte the last insert covering it supplied
    drain,      \* the chunks read since the last rewind
    hist        \* the last SparseBuffer_offset calls and the image before them

sbVars == <<nodes, curr, pos, aborted, lastRead, nset, nshift, written, drain, hist>>

(***************************************************************************)
(* sparse-buffer.c                                                         *)
(***************************************************************************)
NoLinks == [l \in Levels |-> NULL]

\* Node_create with the height randomHeight drew: an empty block, no data,
\* no links.
Node_create(h) ==
    [block |-> [offset |-> 0, length |-> 0, data |-> <<>>],
     ptr |-> "null", height |-> h, prev |-> NoLinks, next |-> NoLinks]

\* The heights randomHeight can return.
randomHeight == 1..MaxHeight

\* An overlap test that leaves out blocks that only touch.
overlap_apart(block1, block2) ==
    /\ block1.offset < block2.offset + block2.length
    /\ block2.offset < block1.offset + block1.length

overlap(block1, block2) ==
    LET end1 == (block1.offset + block1.length) % SizeMod
        end2 == (block2.offset + block2.length) % SizeMod
    IN  \/ (block2.offset <= block1.offset) /\ (block1.offset <= end2)
        \/ (block2.offset <= end1) /\ (end1 <= end2)
        \/ (block1.offset <= block2.offset) /\ (block2.offset <= end1)
        \/ (block1.offset <= end2) /\ (end2 <= end1)

\* memcpy(dst + diff, src, Len(src)) on storage dst.
memcpy(dst, diff, src) ==
    [i \in 1..Len(dst) |->
        IF i > diff /\ i <= diff + Len(src) THEN src[i - diff] ELSE dst[i]]

\* realloc(data, n) keeps the first min(old, n) bytes; the rest is
\* uninitialised.
realloc(data, n) ==
    [i \in 1..n |-> IF i <= Len(data) THEN data[i] ELSE Junk]

JunkData(n) == [i \in 1..n |-> Junk]

\* What remains reachable through self->block.data after Node_addData wrote
\* the merged bytes to nodeData: the function ends with
\* "block.data = nodeData", an assignment to its own parameter, so
\* self->block.data keeps the pointer it had before realloc.  When realloc
\* returned the same address ("same") that is the merged storage; when it
\* moved the storage ("moved") the old address is freed and the node's bytes
\* are indeterminate from then on.
StoredData(self, merged, r) ==
    IF self.ptr = "valid" /\ r = "same" THEN merged ELSE JunkData(Len(merged))

StoredPtr(self, r) ==
    IF self.ptr = "valid" /\ r = "same" THEN "valid" ELSE "dangling"

\* Node_addData(self, block) where a realloc it calls has outcome r: "same",
\* "moved" or "abort" (realloc returned NULL, or it was handed a dangling
\* pointer and the allocator stopped the program).
\* Returns [node, aborted].
Node_addData(self, block, r) ==
    IF self.ptr = "null" THEN
        [node |-> [self EXCEPT !.block = block, !.ptr = "valid"],
         aborted |-> FALSE]
    ELSE
        LET end == (block.offset + block.length) % SizeMod
            nodeEnd == (self.block.offset + self.block.length) % SizeMod
            old == self.block.data
        IN  IF block.offset >= self.block.offset THEN
                IF end > nodeEnd THEN
                    LET newLen == (end - self.block.offset) % SizeMod
                        diff == (block.offset - self.block.offset) % SizeMod
                        merged == memcpy(realloc(old, newLen), diff, block.data)
                    IN  [node |-> [self EXCEPT
                                    !.block.length = newLen,
                                    !.block.data = StoredData(self, merged, r),
                                    !.ptr = StoredPtr(self, r)],
                         aborted |-> (r = "abort")]
                ELSE
                    LET diff == (block.offset - self.block.offset) % SizeMod
                    IN  [node |-> [self EXCEPT
                                    !.block.data =
                                        IF self.ptr = "valid"
                                        THEN memcpy(old, diff, block.data)
                                        ELSE old],
                         aborted |-> FALSE]
            ELSE
                LET nTotal == IF end >= nodeEnd THEN block.length
                              ELSE (nodeEnd - block.offset) % SizeMod
                    diff == (self.block.offset - block.offset) % SizeMod
                    grown == realloc(old, nTotal)
                    moved == IF end < nodeEnd
                             THEN memcpy(grown, diff, old)
                             ELSE grown
                    merged == memcpy(moved, 0, block.data)
                IN  [node |-> [self EXCEPT
                                !.block.offset = block.offset,
                                !.block.length = nTotal,
                                !.block.data = StoredData(self, merged, r),
                                !.ptr = StoredPtr(self, r)],
                     aborted |-> (r = "abort")]

\* insertNode(node, prev): link node id (record n) after prev[i] on each of
\* its levels.
RECURSIVE insertNode(_, _, _, _, _)
insertNode(N, id, n, prev, i) ==
    IF i >= n.height THEN [x \in (DOMAIN N) \cup {id} |-> IF x = id THEN n ELSE N[x]]
    ELSE
        LET p == prev[i]
            nx == N[p].next[i]
            n1 == [n EXCEPT !.prev[i] = p, !.next[i] = nx]
            N1 == [N EXCEPT ![p].next[i] = id]
            N2 == IF nx # NULL THEN [N1 EXCEPT ![nx].prev[i] = id] ELSE N1
        IN  insertNode(N2, id, n1, prev, i + 1)

\* removeNode(node): unlink node id on each of its levels and free it.
RECURSIVE unlinkNode(_, _, _)
unlinkNode(N, id, i) ==
    IF i >= N[id].height THEN N
    ELSE
        LET p == N[id].prev[i]
            nx == N[id].next[i]
            N1 == [N EXCEPT ![p].next[i] = nx]
            N2 == IF nx # NULL THEN [N1 EXCEPT ![nx].prev[i] = p] ELSE N1
        IN  unlinkNode(N2, id, i + 1)

removeNode(N, id) ==
    LET U == unlinkNode(N, id, 0)
    IN  [x \in (DOMAIN U) \ {id} |-> U[x]]

\* The search loop of SparseBuffer_set: from node at level, either the first
\* node met whose block overlaps or touches block (found), or the
\* predecessors prev[] of the place to insert at.
RECURSIVE setSearch(_, _, _, _, _)
setSearch(N, node, level, prev, block) ==
    IF level < 0 THEN [found |-> NULL, prev |-> prev]
    ELSE
        LET next == N[node].next[level]
        IN  IF next = NULL THEN
                setSearch(N, node, level - 1, [prev EXCEPT ![level] = node], block)
            ELSE IF overlap(block, N[next].block) THEN
                [found |-> next, prev |-> prev]
            ELSE IF block.offset > N[next].block.offset THEN
                setSearch(N, next, level, prev, block)
            ELSE
                setSearch(N, node, level - 1, [prev EXCEPT ![level] = node], block)

\* The nodes along the level-0 list, from node id on.
RECURSIVE listFrom(_, _)
listFrom(N, id) ==
    IF id = NULL THEN <<>> ELSE <<id>> \o listFrom(N, N[id].next[0])

\* The stored blocks, in level-0 order (the begin node holds none).
Blocks == [i \in 1..(Len(listFrom(nodes, begin)) - 1) |->
              nodes[listFrom(nodes, begin)[i + 1]].block]

RECURSIVE sumLengths(_, _)
sumLengths(N, id) ==
    IF id = NULL THEN 0
    ELSE (N[id].block.length + sumLengths(N, N[id].next[0])) % SizeMod

SparseBuffer_size == sumLengths(nodes, begin)

\* Whether Node_addData(self, block) calls realloc.
callsRealloc(self, block) ==
    /\ self.ptr # "null"
    /\ \/ block.offset < self.block.offset
       \/ (block.offset + block.length) % SizeMod >
              (self.block.offset + self.block.length) % SizeMod

\* What a realloc can do: return the same address, move the storage, or
\* fail (the caller then calls abort()).
ReallocOutcomes == {"same", "moved", "abort"}

\* The image SparseBuffer_set(block) leaves when the search found the node
\* next to merge into: [nodes, curr, aborted].  r1 and r2 are the outcomes of
\* the reallocs of the two Node_addData calls.
setMerge(N, c, block, next, r1, r2) ==
    LET a1 == Node_addData(N[next], block, r1)
        N1 == [N EXCEPT ![next] = a1.node]
        node == N1[next].next[0]
    IN  IF a1.aborted THEN [nodes |-> N, curr |-> c, aborted |-> TRUE]
        ELSE IF node # NULL /\ overlap(N1[node].block, N1[next].block) THEN
            LET a2 == Node_addData(N1[next], N1[node].block, r2)
                N2 == [N1 EXCEPT ![next] = a2.node]
            IN  IF a2.aborted
                THEN [nodes |-> N, curr |-> c, aborted |-> TRUE]
                ELSE [nodes |-> removeNode(N2, node),
                      curr |-> IF c = node THEN Dangling ELSE c,
                      aborted |-> FALSE]
        ELSE [nodes |-> N1, curr |-> c, aborted |-> FALSE]

\* The realloc outcomes that matter to setMerge: one choice where no realloc
\* is called.
firstOutcomes(N, block, next) ==
    IF callsRealloc(N[next], block) THEN ReallocOutcomes ELSE {"same"}

secondOutcomes(N, block, next, r1) ==
    LET a1 == Node_addData(N[next], block, r1)
        N1 == [N EXCEPT ![next] = a1.node]
        node == N1[next].next[0]
    IN  IF /\ ~a1.aborted
           /\ node # NULL
           /\ overlap(N1[node].block, N1[next].block)
           /\ callsRealloc(N1[next], N1[node].block)
        THEN ReallocOutcomes ELSE {"same"}

\* The image SparseBuffer_set(block) leaves when the search found no node to
\* merge into: a new node of height h, linked after prev[].
setInsert(N, c, block, prev, h) ==
    LET id == CHOOSE x \in NodeIds : x \notin DOMAIN N
        a == Node_addData(Node_create(h), block, "same")
    IN  [nodes |-> insertNode(N, id, a.node, prev, 0),
         curr |-> c, aborted |-> FALSE]

NoRead == [kind |-> "none"]
NoDrain == [active |-> FALSE, chunks |-> <<>>, ended |-> FALSE, again |-> FALSE]
NoHist == [kind |-> "none"]

\* The state abort() leaves: the process is gone.
Aborted ==
    /\ aborted' = TRUE
    /\ nodes' = (begin :> Node_create(MaxHeight))
    /\ curr' = begin /\ pos' = 0
    /\ lastRead' = NoRead
    /\ nset' = 0 /\ nshift' = 0
    /\ written' = <<>>
    /\ drain' = NoDrain
    /\ hist' = NoHist

\* The addresses block covers.
blockAddrs(block) == block.offset..(block.offset + block.length - 1)

\* The addresses of the bytes of block the model holds.
heldAddrs(block) == block.offset..(block.offset + Len(block.data) - 1)

\* The ghosts after the nset-th SparseBuffer_set stored block.
setDone(res, block) ==
    IF res.aborted THEN Aborted
    ELSE
        /\ nodes' = res.nodes
        /\ curr' = res.curr
        /\ aborted' = FALSE
        /\ nset' = nset + 1
        /\ written' = [a \in (DOMAIN written) \cup heldAddrs(block) |->
                         IF a \in heldAddrs(block)
                         THEN block.data[a - block.offset + 1] ELSE written[a]]
        /\ lastRead' = NoRead
        /\ drain' = NoDrain
        /\ hist' = NoHist
        /\ UNCHANGED <<pos, nshift>>

\* SparseBuffer_set(self, block).
SparseBuffer_setBlock(block) ==
    /\ ~aborted
    /\ LET s == setSearch(nodes, begin, MaxHeight - 1, NoLinks, block)
       IN  IF s.found # NULL THEN
               \E r1 \in firstOutcomes(nodes, block, s.found) :
                   \E r2 \in secondOutcomes(nodes, block, s.found, r1) :
                       setDone(setMerge(nodes, curr, block, s.found, r1, r2), block)
           ELSE
               \E h \in randomHeight :
                   setDone(setInsert(nodes, curr, block, s.prev, h), block)

\* SparseBuffer_set of the block at off, of len bytes that no earlier call
\* supplied.
SparseBuffer_set(off, len) ==
    SparseBuffer_setBlock([offset |-> off, length |-> len,
                           data |-> Payload(nset + 1, len)])

sbInit ==
    /\ nodes = (begin :> Node_create(MaxHeight))
    /\ curr = begin
    /\ pos = 0
    /\ aborted = FALSE
    /\ lastRead = NoRead
    /\ nset = 0
    /\ nshift = 0
    /\ written = <<>>
    /\ drain = NoDrain
    /\ hist = NoHist

\* A walk that stops after the first stored block: the begin node and its
\* level-0 successor move, the nodes after them stay.
offsetNodes_first(N, delta) ==
    [id \in DOMAIN N |->
        IF id = begin \/ id = N[begin].next[0]
        THEN [N[id] EXCEPT !.block.offset = (N[id].block.offset + delta) % SizeMod]
        ELSE N[id]]

\* SparseBuffer_offset(self, offset): every node of the level-0 list, the
\* begin node included, and the cursor move by delta (size_t arithmetic).
offsetNodes(N, delta) ==
    [id \in DOMAIN N |->
        [N[id] EXCEPT !.block.offset = (N[id].block.offset + delta) % SizeMod]]

\* A cursor shift that saturates at 0 instead of wrapping.
offsetPos_saturating(p, delta) == IF p + delta < 0 THEN 0 ELSE p + delta

\* self->offset += offset, on size_t.
offsetPos(p, delta) == (p + delta) % SizeMod

\* The callers keep every stored block inside the address space and away
\* from its top (main shifts a file read at offset 0 to flashBeginAddr): a
\* delta that would wrap a stored block around is not drawn.
shiftInRange(delta) ==
    \A id \in (DOMAIN nodes) \ {begin} :
        /\ nodes[id].block.offset + delta >= 0
        /\ nodes[id].block.offset + nodes[id].block.length + delta + ChunkLen < SizeMod

Image == [nodes |-> nodes, curr |-> curr, pos |-> pos]

SparseBuffer_offset(delta) ==
    /\ ~aborted
    /\ nshift < MaxShifts
    /\ shiftInRange(delta)
    /\ nodes' = offsetNodes(nodes, delta)
    /\ pos' = offsetPos(pos, delta)
    /\ nshift' = nshift + 1
    /\ written' = [a \in {(b + delta) % SizeMod : b \in DOMAIN written} |->
                      written[(a - delta) % SizeMod]]
    /\ hist' = IF hist.kind = "shifted" /\ delta = 0 - hist.delta
               THEN [hist EXCEPT !.kind = "restored"]
               ELSE [kind |-> "shifted", delta |-> delta, before |-> Image]
    /\ lastRead' = NoRead
    /\ drain' = NoDrain
    /\ UNCHANGED <<curr, aborted, nset>>

\* SparseBuffer_read(self, length) from a live cursor:
\* [sentinel, node, offset, length].
readResult(N, c, p, length) ==
    LET end0 == (N[c].block.offset + N[c].block.length) % SizeMod
        skip == p >= end0
        node == IF skip THEN N[c].next[0] ELSE c
    IN  IF node = NULL
        THEN [sentinel |-> TRUE, node |-> c, offset |-> 0, length |-> 0]
        ELSE
            LET offset == IF skip THEN N[node].block.offset ELSE p
                end == IF skip
                       THEN (offset + N[node].block.length) % SizeMod
                       ELSE end0
                len == IF length = 0 \/ (offset + length) % SizeMod > end
                       THEN (end - offset) % SizeMod
                       ELSE length
            IN  [sentinel |-> FALSE, node |-> node, offset |-> offset, length |-> len]

Sentinel == [kind |-> "sentinel", offset |-> 0, length |-> 0, data |-> <<>>]

\* The len bytes at block.data + diff.  Of a block longer than the bytes
\* held for it (the file of more than MaxFile bytes, whose bytes repeat with
\* the period held) the bytes are those of the period.
blockBytes(block, diff, len) ==
    IF Len(block.data) = block.length
    THEN SubSeq(block.data, diff + 1, diff + len)
    ELSE [i \in 1..len |-> block.data[((diff + i - 1) % Len(block.data)) + 1]]

\* The ghost of the chunks read since the last rewind, after a read of
\* length asked returned result.
drainAfter(asked, result) ==
    IF ~drain.active \/ asked # ChunkLen THEN NoDrain
    ELSE IF result.kind = "sentinel" THEN [drain EXCEPT !.ended = TRUE]
    ELSE IF drain.ended THEN [drain EXCEPT !.again = TRUE]
    ELSE [drain EXCEPT !.chunks = Append(@, [offset |-> result.offset,
                                             length |-> result.length])]

SparseBuffer_read(length) ==
    /\ ~aborted
    /\ curr # Dangling
    /\ LET r == readResult(nodes, curr, pos, length)
           diff == (r.offset - nodes[r.node].block.offset) % SizeMod
           result == IF r.sentinel THEN Sentinel
                     ELSE [kind |-> "chunk", offset |-> r.offset, length |-> r.length,
                           data |-> blockBytes(nodes[r.node].block, diff,
                                               r.length)]
       IN  /\ lastRead' = result
           /\ curr' = IF r.sentinel THEN curr ELSE r.node
           /\ pos' = IF r.sentinel THEN pos ELSE (r.offset + r.length) % SizeMod
           /\ drain' = drainAfter(length, result)
    /\ hist' = NoHist
    /\ UNCHANGED <<nodes, aborted, nset, nshift, written>>

\* SparseBuffer_read after removeNode freed the node self->curr designates:
\* the read goes through freed memory.  It can return anything or stop the
\* program; the model draws among the sentinel, a chunk of indeterminate
\* bytes at the cursor and a crash.
SparseBuffer_readFreed(length, outcome) ==
    /\ ~aborted
    /\ curr = Dangling
    /\ IF outcome = "abort" THEN Aborted
       ELSE
           /\ lastRead' = IF outcome = "sentinel" THEN Sentinel
                          ELSE [kind |-> "chunk", offset |-> pos,
                                length |-> IF length = 0 THEN 1 ELSE length,
                                data |-> JunkData(IF length = 0 THEN 1 ELSE length)]
           /\ drain' = NoDrain
           /\ hist' = NoHist
           /\ UNCHANGED <<nodes, curr, pos, aborted, nset, nshift, written>>

\* A rewind that leaves the cursor where it is.
SparseBuffer_rewind_stay ==
    /\ ~aborted
    /\ drain' = [active |-> TRUE, chunks |-> <<>>, ended |-> FALSE, again |-> FALSE]
    /\ lastRead' = NoRead
    /\ hist' = NoHist
    /\ UNCHANGED <<nodes, curr, pos, aborted, nset, nshift, written>>

SparseBuffer_rewind ==
    /\ ~aborted
    /\ curr' = begin
    /\ pos' = nodes[begin].block.offset
    /\ drain' = [active |-> TRUE, chunks |-> <<>>, ended |-> FALSE, again |-> FALSE]
    /\ lastRead' = NoRead
    /\ hist' = NoHist
    /\ UNCHANGED <<nodes, aborted, nset, nshift, written>>

Set ==
    /\ nset < MaxInserts
    /\ \E off \in 0..MaxOffset, len \in 1..MaxLen : SparseBuffer_set(off, len)

SetDeep ==
    /\ nset < DeepInserts
    /\ \E off \in 0..DeepOffset, len \in 1..DeepLen : SparseBuffer_set(off, len)

Offset ==
    \E delta \in (0 - MaxDelta)..MaxDelta : SparseBuffer_offset(delta)

Read ==
    \E length \in 0..ChunkLen : SparseBuffer_read(length)

ReadFreed ==
    \E length \in 0..ChunkLen, outcome \in {"sentinel", "chunk", "abort"} :
        SparseBuffer_readFreed(length, outcome)

Rewind == SparseBuffer_rewind

(***************************************************************************)
(* serial.c and the bootloader protocol of stm32sprog.c                    *)
(***************************************************************************)
\* Bounds of the protocol runs: the GET_VERSION reply announces at most
\* MaxCmds command bytes.
MaxCmds == 2

MAX_RETRIES == 10
NUM_COMMANDS_KNOWN == 12
ACK == \H79
CMD_GET_VERSION == \H00
CMD_GET_ID == \H02
\* The Command enumeration, in the order of cmdIndex's case labels.
Commands ==
    << \H00, \H01, \H02, \H11, \H21, \H31, \H43, \H44, \H63, \H73, \H82, \H92 >>

ID_LOW_DENSITY == \H0412
ID_MED_DENSITY == \H0410
ID_HI_DENSITY == \H0414
ID_CONNECTIVITY == \H0418
ID_MED_DENSITY_VALUE == \H0420
ID_HI_DENSITY_VALUE == \H0428
ID_XL_DENSITY == \H0430
ID_MED_DENSITY_ULTRA_LOW_POWER == \H0436
ID_HI_DENSITY_ULTRA_LOW_POWER == \H0416

\* What the target may put on the line where the driver reads: an answer to
\* a frame, the length and the payload bytes of the GET_VERSION and GET_ID
\* replies.
AckBytes == {ACK, \H1F, \H00}
CountBytes == 0..MaxCmds
VersionBytes == {\H22}
OpcodeBytes == {\H00, \H02, \H11, \H55}
IdLengthBytes == {0, 1, 2}
IdBytes == {\H00, \H04, \H10, \H12, \H14, \H16, \H18, \H20, \H28, \H30, \H36}

VARIABLES
    \* stm32sprog.c
    pc,         \* where the driver is
    result,     \* what the running operation returned: "none", "true", "false"
    retries,    \* stmConnect's retries
    devParams,  \* the static devParams
    data,       \* stmGetDevParams's data
    cnt,        \* the loop counter i of stmGetDevParams's loops
    id,         \* stmGetDevParams's id
    \* serial.c and the line
    rd,         \* the serialRead call in progress, or the last one
    tx,         \* the bytes written to the target, in order
    dtr,        \* the states DTR was set to, in order
    \* ghosts
    rx,         \* the bytes serialRead delivered, in order
    ioFailed    \* a serialWrite or a serialRead has returned false

protoVars ==
    <<pc, result, retries, devParams, data, cnt, id, rd, tx, dtr, rx, ioFailed>>

VARIABLES
    loc,        \* the locals of the operation in progress
    main        \* main's locals, and what the scenario's target will send

opVars == <<loc, main>>

\* The no-result marker of rd.last: no read() has returned yet.
NoResult == 0 - 2

\* A serialRead that gives up at the first read() that times out.
serialRead_shortFails(n, res) ==
    IF res > 0
    THEN [n |-> n - res,
          ret |-> IF n - res = 0 THEN "true" ELSE "running"]
    ELSE [n |-> n, ret |-> "false"]

\* One pass of serialRead's loop with n bytes left, read() having returned
\* res: the bytes still to read, and whether serialRead has returned
\* ("true", "false") or loops ("running").
serialRead(n, res) ==
    IF res > 0
    THEN [n |-> n - res,
          ret |-> IF n - res = 0 THEN "true" ELSE "running"]
    ELSE IF res < 0
    THEN [n |-> n, ret |-> "false"]
    ELSE [n |-> n, ret |-> "running"]

\* serialWrite of buffer: all of it goes out, or write() reports an error.
serialWrite(buffer, ok) ==
    /\ tx' = (IF ok THEN tx \o buffer ELSE tx)
    /\ ioFailed' = (ioFailed \/ ~ok)

\* The operation in progress returns.
return(value) ==
    /\ pc' = "done"
    /\ result' = (IF value THEN "true" ELSE "false")

\* The bytes the target may deliver where the driver reads a byte of B: any
\* of B, or the next byte of its script for the target of a scenario.
Answers(B) ==
    IF main.script = <<>> THEN B
    ELSE IF Len(rx) < Len(main.script) THEN {main.script[Len(rx) + 1]}
    ELSE {}

\* What read() can do in a serialRead(dev, &byte, 1) of the driver: report
\* an error, time out, or deliver a byte of B.
ReadOutcomes(B) ==
    {[res |-> 1, byte |-> b] : b \in Answers(B)}
        \cup {[res |-> 0, byte |-> 0], [res |-> 0 - 1, byte |-> 0]}

\* The bytes the serialRead at hand still has to read.
toRead == IF rd.ret = "running" THEN rd.n ELSE 1

\* Whether serialRead loops ("running") or returns ("true", "false") after
\* the read() outcome o.
readRet(o) == serialRead(toRead, o.res).ret

\* The serialRead side of a step: a pass of its loop on the outcome o.
Recv(o) ==
    /\ rd' = [n |-> serialRead(toRead, o.res).n, last |-> o.res,
              ret |-> readRet(o)]
    /\ rx' = (IF readRet(o) = "true" THEN Append(rx, o.byte) ELSE rx)
    /\ ioFailed' = (ioFailed \/ readRet(o) = "false")

\* The driver's side of a pass that leaves serialRead looping.
stillReading ==
    UNCHANGED <<pc, result, retries, devParams, data, cnt, id, tx, dtr>>

\* stmRecvAck on the byte serialRead delivered.
stmRecvAck(b) == b = ACK

\* A retry test that is off by one: it gives up one send early.
giveUp_early(n) == n >= MAX_RETRIES

\* stmConnect's test before each send.
giveUp(n) == n > MAX_RETRIES

\* serialSetDtr(dev, true) and serialSetDtr(dev, false); serialSetDtr
\* begins with assert(dev).
stmConnect_pulse ==
    /\ pc = "stmConnect"
    /\ dtr' = (IF main.dev THEN dtr \o <<TRUE, FALSE>> ELSE dtr)
    /\ retries' = 0
    /\ pc' = (IF main.dev THEN "connect_send" ELSE "abort")
    /\ UNCHANGED <<result, devParams, data, cnt, id, rd, tx, rx, ioFailed>>

stmConnect_send ==
    /\ pc = "connect_send"
    /\ retries' = retries + 1
    /\ IF giveUp(retries + 1)
       THEN return(FALSE) /\ UNCHANGED <<tx, ioFailed>>
       ELSE /\ \E ok \in BOOLEAN : serialWrite(<<\H7F>>, ok)
            /\ pc' = "connect_ack"
            /\ result' = result
    /\ UNCHANGED <<devParams, data, cnt, id, rd, dtr, rx>>

stmConnect_ack ==
    /\ pc = "connect_ack"
    /\ \E o \in ReadOutcomes(AckBytes) :
          /\ Recv(o)
          /\ CASE readRet(o) = "running" -> stillReading
               [] readRet(o) = "true" /\ stmRecvAck(o.byte) ->
                     /\ return(TRUE)
                     /\ UNCHANGED <<retries, devParams, data, cnt, id, tx, dtr>>
               [] OTHER ->
                     /\ pc' = "connect_send"
                     /\ UNCHANGED <<result, retries, devParams, data, cnt, id,
                                    tx, dtr>>

stmConnect == stmConnect_pulse \/ stmConnect_send \/ stmConnect_ack

\* A cmdIndex that gives every opcode of the enumeration the index 0.
cmdIndex_flat(cmd) ==
    IF \E k \in DOMAIN Commands : Commands[k] = cmd THEN 0 ELSE 0 - 1

\* cmdIndex: the switch falls through from the case of cmd to the end,
\* adding one per case label passed; -1 for an opcode that has no case.
cmdIndex(cmd) ==
    IF \E k \in DOMAIN Commands : Commands[k] = cmd
    THEN LET k == CHOOSE j \in DOMAIN Commands : Commands[j] = cmd
         IN  (0 - 1) + (Len(Commands) - k + 1)
    ELSE 0 - 1

\* A table in which every command is supported.
cmdSupported_any(cmd) == TRUE

cmdSupported(cmd) == devParams.commands[cmdIndex(cmd)]

NoCommands == [idx \in 0..(NUM_COMMANDS_KNOWN - 1) |-> FALSE]

\* a | b on naturals.
RECURSIVE bitOr(_, _)
bitOr(a, b) ==
    IF a = 0 THEN b
    ELSE IF b = 0 THEN a
    ELSE (IF a % 2 = 1 \/ b % 2 = 1 THEN 1 ELSE 0)
             + 2 * bitOr(a \div 2, b \div 2)

\* The shifts of an id assembled least significant byte first.
idShift_littleEndian(i) == (1 - i) * 8

\* The shift of the byte read at loop index i of the GET_ID reply.
idShift(i) == i * 8

\* id |= data << (i * CHAR_BIT), id being a uint16_t.
orIntoId(old, byte, i) == bitOr(old, byte * (2 ^ idShift(i))) % (2 ^ 16)

\* The switch on the product id: the geometry it assigns to devParams, or
\* nothing for an id that has no case.
idGeometry(p, ident) ==
    CASE ident = ID_LOW_DENSITY ->
           [p EXCEPT !.flashEndAddr = \H08008000]
      [] ident = ID_MED_DENSITY ->
           [p EXCEPT !.flashEndAddr = \H08020000]
      [] ident = ID_HI_DENSITY ->
           [p EXCEPT !.flashEndAddr = \H08080000,
                     !.flashPagesPerSector = 2, !.flashPageSize = 2048]
      [] ident = ID_CONNECTIVITY ->
           [p EXCEPT !.flashEndAddr = \H08040000,
                     !.flashPagesPerSector = 2, !.flashPageSize = 2048]
      [] ident = ID_MED_DENSITY_VALUE ->
           [p EXCEPT !.flashEndAddr = \H08020000]
      [] ident = ID_HI_DENSITY_VALUE ->
           [p EXCEPT !.flashEndAddr = \H08080000,
                     !.flashPagesPerSector = 2, !.flashPageSize = 2048]
      [] ident = ID_XL_DENSITY ->
           [p EXCEPT !.flashEndAddr = \H08100000,
                     !.flashPagesPerSector = 2, !.flashPageSize = 2048]
      [] ident = ID_MED_DENSITY_ULTRA_LOW_POWER ->
           [p EXCEPT !.flashEndAddr = \H08060000,
                     !.flashPagesPerSector = 16, !.flashPageSize = 256]
      [] ident = ID_HI_DENSITY_ULTRA_LOW_POWER ->
           [p EXCEPT !.flashEndAddr = \H08020000,
                     !.flashPagesPerSector = 16, !.flashPageSize = 256]
      [] OTHER -> p

IdCases ==
    {ID_LOW_DENSITY, ID_MED_DENSITY, ID_HI_DENSITY, ID_CONNECTIVITY,
     ID_MED_DENSITY_VALUE, ID_HI_DENSITY_VALUE, ID_XL_DENSITY,
     ID_MED_DENSITY_ULTRA_LOW_POWER, ID_HI_DENSITY_ULTRA_LOW_POWER}

\* The static devParams before stmGetDevParams has run: zeroes.
NoDevParams ==
    [bootloaderVer |-> 0, commands |-> NoCommands, flashBeginAddr |-> 0,
     flashEndAddr |-> 0, flashPagesPerSector |-> 0, flashPageSize |-> 0,
     eraseDelay |-> 0, writeDelay |-> 0]

\* stmSendByte up to its stmRecvAck: the byte and its complement go out and
\* the driver waits for the answer at pc next, or the write fails.
stmSendByte(byte, next) ==
    \E ok \in BOOLEAN :
        /\ serialWrite(<<byte, 255 - byte>>, ok)
        /\ IF ok THEN pc' = next /\ result' = result ELSE return(FALSE)

\* A failed serialRead or a byte that is not ACK: stmGetDevParams returns
\* false.
readFailed ==
    /\ return(FALSE)
    /\ UNCHANGED <<retries, devParams, data, cnt, id, tx, dtr>>

\* A stmRecvAck of stmGetDevParams: on ACK the driver goes on at next.
RecvAck(next) ==
    \E o \in ReadOutcomes(AckBytes) :
        /\ Recv(o)
        /\ CASE readRet(o) = "running" -> stillReading
             [] readRet(o) = "true" /\ stmRecvAck(o.byte) ->
                   /\ pc' = next
                   /\ UNCHANGED <<result, retries, devParams, data, cnt, id,
                                  tx, dtr>>
             [] OTHER -> readFailed

\* The geometry stmGetDevParams assigns before it asks the target.
defaultGeometry(p) ==
    [p EXCEPT !.flashBeginAddr = \H08000000,
              !.flashEndAddr = \H08008000,
              !.flashPagesPerSector = 4,
              !.flashPageSize = 1024,
              !.eraseDelay = 40000,
              !.writeDelay = 80000]

GetDevParams_begin ==
    /\ pc = "stmGetDevParams"
    /\ data' = 0
    /\ devParams' = defaultGeometry(devParams)
    /\ stmSendByte(CMD_GET_VERSION, "version_ack")
    /\ UNCHANGED <<retries, cnt, id, rd, dtr, rx>>

GetDevParams_versionAck ==
    /\ pc = "version_ack"
    /\ RecvAck("version_len")

GetDevParams_versionLen ==
    /\ pc = "version_len"
    /\ \E o \in ReadOutcomes(CountBytes) :
          /\ Recv(o)
          /\ CASE readRet(o) = "running" -> stillReading
               [] readRet(o) = "false" -> readFailed
               [] readRet(o) = "true" ->
                     /\ data' = o.byte
                     /\ pc' = "version_ver"
                     /\ UNCHANGED <<result, retries, devParams, cnt, id, tx,
                                    dtr>>

GetDevParams_versionVer ==
    /\ pc = "version_ver"
    /\ \E o \in ReadOutcomes(VersionBytes) :
          /\ Recv(o)
          /\ CASE readRet(o) = "running" -> stillReading
               [] readRet(o) = "false" -> readFailed
               [] readRet(o) = "true" ->
                     /\ devParams' = [devParams EXCEPT
                                         !.bootloaderVer = o.byte,
                                         !.commands = NoCommands]
                     /\ cnt' = data
                     /\ pc' = (IF data > 0 THEN "version_cmds"
                               ELSE "version_end")
                     /\ UNCHANGED <<result, retries, data, id, tx, dtr>>

GetDevParams_versionCmds ==
    /\ pc = "version_cmds"
    /\ \E o \in ReadOutcomes(OpcodeBytes) :
          /\ Recv(o)
          /\ CASE readRet(o) = "running" -> stillReading
               [] readRet(o) = "false" -> readFailed
               [] readRet(o) = "true" ->
                     /\ data' = o.byte
                     /\ devParams' =
                            (IF cmdIndex(o.byte) >= 0
                             THEN [devParams EXCEPT
                                      !.commands[cmdIndex(o.byte)] = TRUE]
                             ELSE devParams)
                     /\ cnt' = cnt - 1
                     /\ pc' = (IF cnt - 1 > 0 THEN "version_cmds"
                               ELSE "version_end")
                     /\ UNCHANGED <<result, retries, id, tx, dtr>>

GetDevParams_versionEnd ==
    /\ pc = "version_end"
    /\ RecvAck("id_send")

GetDevParams_idSend ==
    /\ pc = "id_send"
    /\ IF ~cmdSupported(CMD_GET_ID)
       THEN return(FALSE) /\ UNCHANGED <<tx, ioFailed>>
       ELSE stmSendByte(CMD_GET_ID, "id_ack")
    /\ UNCHANGED <<retries, devParams, data, cnt, id, rd, dtr, rx>>

GetDevParams_idAck ==
    /\ pc = "id_ack"
    /\ RecvAck("id_len")

GetDevParams_idLen ==
    /\ pc = "id_len"
    /\ \E o \in ReadOutcomes(IdLengthBytes) :
          /\ Recv(o)
          /\ CASE readRet(o) = "running" -> stillReading
               [] readRet(o) = "false" -> readFailed
               [] readRet(o) = "true" ->
                     /\ data' = o.byte
                     /\ IF o.byte # 1
                        THEN return(FALSE) /\ UNCHANGED <<id, cnt>>
                        ELSE /\ id' = 0
                             /\ cnt' = o.byte
                             /\ pc' = "id_bytes"
                             /\ result' = result
                     /\ UNCHANGED <<retries, devParams, tx, dtr>>

GetDevParams_idBytes ==
    /\ pc = "id_bytes"
    /\ \E o \in ReadOutcomes(IdBytes) :
          /\ Recv(o)
          /\ CASE readRet(o) = "running" -> stillReading
               [] readRet(o) = "false" -> readFailed
               [] readRet(o) = "true" ->
                     /\ data' = o.byte
                     /\ id' = (IF cnt < 2 THEN orIntoId(id, o.byte, cnt)
                               ELSE id)
                     /\ cnt' = cnt - 1
                     /\ pc' = (IF cnt - 1 >= 0 THEN "id_bytes" ELSE "id_end")
                     /\ UNCHANGED <<result, retries, devParams, tx, dtr>>

GetDevParams_idEnd ==
    /\ pc = "id_end"
    /\ \E o \in ReadOutcomes(AckBytes) :
          /\ Recv(o)
          /\ CASE readRet(o) = "running" -> stillReading
               [] readRet(o) = "true" /\ stmRecvAck(o.byte) ->
                     /\ return(id \in IdCases)
                     /\ devParams' = idGeometry(devParams, id)
                     /\ UNCHANGED <<retries, data, cnt, id, tx, dtr>>
               [] OTHER -> readFailed

stmGetDevParams ==
    \/ GetDevParams_begin
    \/ GetDevParams_versionAck
    \/ GetDevParams_versionLen
    \/ GetDevParams_versionVer
    \/ GetDevParams_versionCmds
    \/ GetDevParams_versionEnd
    \/ GetDevParams_idSend
    \/ GetDevParams_idAck
    \/ GetDevParams_idLen
    \/ GetDevParams_idBytes
    \/ GetDevParams_idEnd

(***************************************************************************)
(* Frames, erase, write, verify and go of stm32sprog.c                     *)
(***************************************************************************)
\* Bound of the page loops of stmEraseFlashPages: a run takes at most
\* MaxEmit passes through a page loop.
MaxEmit == 260

\* A block size that is not a multiple of 4.
MAX_BLOCK_SIZE_odd == \HFF

MAX_BLOCK_SIZE == 256
CMD_READ_MEM == \H11
CMD_GO == \H21
CMD_WRITE_MEM == \H31
CMD_ERASE == \H43
CMD_EXTENDED_ERASE == \H44

\* a ^ b on naturals.
RECURSIVE bitXor(_, _)
bitXor(a, b) ==
    IF a = 0 THEN b
    ELSE IF b = 0 THEN a
    ELSE (IF a % 2 = b % 2 THEN 0 ELSE 1) + 2 * bitXor(a \div 2, b \div 2)

\* The conversions to uint8_t and to uint16_t.
uint8(v) == v % 256
uint16(v) == v % 65536

\* Bit k of the natural v.
bitAt(v, k) == (v \div (2 ^ k)) % 2

\* Bit k of the bytes XORed into checksum: the parity of the bit over
\* checksum and every byte.
xorBit(checksum, bytes, k) ==
    (bitAt(checksum, k)
         + Cardinality({i \in DOMAIN bytes : bitAt(bytes[i], k) = 1})) % 2

\* A checksum that ORs the bytes instead.
xorInto_or(checksum, bytes) ==
    LET b(k) == IF bitAt(checksum, k) = 1
                   \/ \E i \in DOMAIN bytes : bitAt(bytes[i], k) = 1
                THEN 2 ^ k ELSE 0
    IN  b(0) + b(1) + b(2) + b(3) + b(4) + b(5) + b(6) + b(7)

\* checksum ^= b for every byte b of bytes, checksum and the bytes being
\* uint8_t: bit by bit.
xorInto(checksum, bytes) ==
    LET b(k) == xorBit(checksum, bytes, k) * (2 ^ k)
    IN  b(0) + b(1) + b(2) + b(3) + b(4) + b(5) + b(6) + b(7)

\* serialWrite16's buffer: data, most significant byte first.
buffer16(v) == << (v \div 256) % 256, v % 256 >>

\* An address buffer with the least significant byte first.
addrBuffer_lsbFirst(addr) ==
    LET b == [i \in 1..4 |-> uint8(addr \div (2 ^ ((i - 1) * 8)))]
    IN  b \o << xorInto(0, b) >>

\* stmSendAddr's buffer: the four bytes of addr, most significant first, and
\* their XOR.
addrBuffer(addr) ==
    LET b == [i \in 1..4 |-> uint8(addr \div (2 ^ ((4 - i) * 8)))]
    IN  b \o << xorInto(0, b) >>

\* A padding that adds four fillers to a payload that needs none.
blockPadding_full(size) == 4 - (size % 4)

\* stmSendBlock's padding and length byte for a payload of size bytes.
blockPadding(size) == (4 - (size % 4)) % 4
blockN(size) == uint8(size + blockPadding(size) - 1)

\* The locals of no operation.  block1 and block2 are overlap's parameters,
\* self and block Node_addData's, before being self as it was at the call.
\* other holds the nodes of a second image.  callee is the function called
\* from the operation's loop, next is where stmSendAddr's caller goes on,
\* base and rbase are the numbers of bytes written and read before the
\* operation was called.
NoLoc ==
    [op |-> "none", callee |-> "none", next |-> "none", addr |-> 0,
     first |-> 0, count |-> 0, data |-> 0, checksum |-> 0, emitted |-> 0,
     block |-> Sentinel, ok |-> TRUE, buff |-> <<>>, base |-> 0,
     rbase |-> 0, block1 |-> Sentinel, block2 |-> Sentinel,
     self |-> Node_create(1), before |-> Node_create(1),
     other |-> begin :> Node_create(MaxHeight)]

\* A serialWrite of buffer: on success the operation goes on at next with
\* the locals l.
Send(buffer, next, l) ==
    \E ok \in BOOLEAN :
        /\ serialWrite(buffer, ok)
        /\ IF ok
           THEN /\ pc' = next /\ result' = result /\ loc' = l
           ELSE /\ return(FALSE) /\ loc' = loc
        /\ UNCHANGED <<retries, devParams, data, cnt, id, rd, dtr, rx, main>>

\* A stmRecvAck of an operation: on ACK it goes on at next, otherwise
\* it returns false.
Ack(next) ==
    /\ RecvAck(next)
    /\ UNCHANGED <<loc, main>>

\* The last stmRecvAck of an operation, whose value it returns.
AckReturn ==
    /\ \E o \in ReadOutcomes(AckBytes) :
          /\ Recv(o)
          /\ CASE readRet(o) = "running" -> stillReading
               [] readRet(o) = "true" /\ stmRecvAck(o.byte) ->
                     /\ return(TRUE)
                     /\ UNCHANGED <<retries, devParams, data, cnt, id, tx, dtr>>
               [] OTHER -> readFailed
    /\ UNCHANGED <<loc, main>>

\* An EXTENDED_ERASE limit that lets every 16-bit count through.
extendedOutOfRange_any16(count) == count > \HFFFF

\* The range tests of stmEraseFlashPages, for ERASE and for EXTENDED_ERASE.
legacyOutOfRange(first, count) == first > 255 \/ first + count - 1 > 255
extendedOutOfRange(count) == count > \HFFF0

\* stmEraseFlashPages(first, count) up to the first frame: the argument
\* checks and the command frame of the erase command the target supports.
EraseFlashPages_begin ==
    /\ pc = "stmEraseFlashPages"
    /\ IF loc.count = 0 THEN
           return(TRUE) /\ UNCHANGED <<tx, ioFailed>>
       ELSE IF cmdSupported(CMD_ERASE) THEN
           IF legacyOutOfRange(loc.first, loc.count)
           THEN return(FALSE) /\ UNCHANGED <<tx, ioFailed>>
           ELSE stmSendByte(CMD_ERASE, "pages_cmd_ack")
       ELSE IF cmdSupported(CMD_EXTENDED_ERASE) THEN
           IF extendedOutOfRange(loc.count)
           THEN return(FALSE) /\ UNCHANGED <<tx, ioFailed>>
           ELSE stmSendByte(CMD_EXTENDED_ERASE, "pagesx_cmd_ack")
       ELSE return(FALSE) /\ UNCHANGED <<tx, ioFailed>>
    /\ UNCHANGED <<retries, devParams, data, cnt, id, rd, dtr, rx, loc, main>>

EraseFlashPages_cmdAck ==
    /\ pc = "pages_cmd_ack"
    /\ Ack("pages_count")

\* uint8_t data = count - 1; checksum = data; the write of data; data = first.
EraseFlashPages_count ==
    /\ pc = "pages_count"
    /\ Send(<< uint8(loc.count - 1) >>, "pages_loop",
            [loc EXCEPT !.checksum = uint8(loc.count - 1),
                        !.data = uint8(loc.first)])

\* One pass of for(data = first; data < first + count; ++data), data being a
\* uint8_t, or the write of the checksum after the loop.
EraseFlashPages_loop ==
    /\ pc = "pages_loop"
    /\ IF loc.data < loc.first + loc.count
       THEN /\ loc.emitted < MaxEmit
            /\ Send(<< loc.data >>, "pages_loop",
                    [loc EXCEPT !.checksum = bitXor(loc.checksum, loc.data),
                                !.data = uint8(loc.data + 1),
                                !.emitted = loc.emitted + 1])
       ELSE Send(<< loc.checksum >>, "pages_ack", loc)

EraseFlashPages_xcmdAck ==
    /\ pc = "pagesx_cmd_ack"
    /\ Ack("pagesx_count")

\* checksum = 0; serialWrite16(count - 1, &checksum); i = first.
EraseFlashPages_xcount ==
    /\ pc = "pagesx_count"
    /\ Send(buffer16(uint16(loc.count - 1)), "pagesx_loop",
            [loc EXCEPT !.checksum = xorInto(0, buffer16(uint16(loc.count - 1))),
                        !.data = uint16(loc.first)])

\* One pass of for(uint16_t i = first; i < first + count; ++i), or the write
\* of the checksum after the loop.
EraseFlashPages_xloop ==
    /\ pc = "pagesx_loop"
    /\ IF loc.data < loc.first + loc.count
       THEN /\ loc.emitted < MaxEmit
            /\ Send(buffer16(loc.data), "pagesx_loop",
                    [loc EXCEPT !.checksum = xorInto(loc.checksum,
                                                     buffer16(loc.data)),
                                !.data = uint16(loc.data + 1),
                                !.emitted = loc.emitted + 1])
       ELSE Send(<< loc.checksum >>, "pages_ack", loc)

EraseFlashPages_ack ==
    /\ pc = "pages_ack"
    /\ AckReturn

stmEraseFlashPages ==
    \/ EraseFlashPages_begin
    \/ EraseFlashPages_cmdAck
    \/ EraseFlashPages_count
    \/ EraseFlashPages_loop
    \/ EraseFlashPages_xcmdAck
    \/ EraseFlashPages_xcount
    \/ EraseFlashPages_xloop
    \/ EraseFlashPages_ack

\* A page count that leaves the last page of the flash out.
flashPages_short ==
    uint16((devParams.flashEndAddr - devParams.flashBeginAddr)
               \div devParams.flashPageSize) - 1

\* The numPages of stmErase's fallback, a uint16_t.
flashPages ==
    uint16((devParams.flashEndAddr - devParams.flashBeginAddr)
               \div devParams.flashPageSize)

Erase_begin ==
    /\ pc = "stmErase"
    /\ IF cmdSupported(CMD_ERASE) THEN
           stmSendByte(CMD_ERASE, "erase_cmd_ack")
       ELSE IF cmdSupported(CMD_EXTENDED_ERASE) THEN
           stmSendByte(CMD_EXTENDED_ERASE, "erasex_cmd_ack")
       ELSE return(FALSE) /\ UNCHANGED <<tx, ioFailed>>
    /\ UNCHANGED <<retries, devParams, data, cnt, id, rd, dtr, rx, loc, main>>

Erase_cmdAck ==
    /\ pc = "erase_cmd_ack"
    /\ Ack("erase_global")

Erase_global ==
    /\ pc = "erase_global"
    /\ Send(<< \HFF, \H00 >>, "erase_ack", loc)

Erase_xcmdAck ==
    /\ pc = "erasex_cmd_ack"
    /\ Ack("erasex_global")

Erase_xglobal ==
    /\ pc = "erasex_global"
    /\ Send(<< \HFF, \HFF, \H00 >>, "erase_ack", loc)

\* if(stmRecvAck()) the global erase is under way; else the page-by-page
\* erase of the whole flash.
Erase_ack ==
    /\ pc = "erase_ack"
    /\ \E o \in ReadOutcomes(AckBytes) :
          /\ Recv(o)
          /\ CASE readRet(o) = "running" -> stillReading /\ loc' = loc
               [] readRet(o) = "true" /\ stmRecvAck(o.byte) ->
                     /\ return(TRUE)
                     /\ loc' = loc
                     /\ UNCHANGED <<retries, devParams, data, cnt, id, tx, dtr>>
               [] OTHER ->
                     /\ pc' = "stmEraseFlashPages"
                     /\ loc' = [loc EXCEPT !.first = 0, !.count = flashPages]
                     /\ UNCHANGED <<result, retries, devParams, data, cnt, id,
                                    tx, dtr>>
    /\ main' = main

stmErase ==
    \/ Erase_begin
    \/ Erase_cmdAck
    \/ Erase_global
    \/ Erase_xcmdAck
    \/ Erase_xglobal
    \/ Erase_ack

\* assert(addr % 4 == 0), and stmSendAddr's write of the address frame.
stmSendAddr ==
    /\ pc = "addr"
    /\ IF loc.addr % 4 # 0
       THEN /\ pc' = "abort"
            /\ UNCHANGED <<result, retries, devParams, data, cnt, id, rd, tx,
                           dtr, rx, ioFailed, loc>>
            /\ main' = [main EXCEPT !.addrs = Append(@, loc.addr)]
       ELSE \E ok \in BOOLEAN :
               /\ serialWrite(addrBuffer(loc.addr), ok)
               /\ IF ok THEN pc' = "addr_ack" /\ result' = result
                  ELSE return(FALSE)
               /\ main' = [main EXCEPT !.addrs = Append(@, loc.addr)]
               /\ UNCHANGED <<retries, devParams, data, cnt, id, rd, dtr, rx,
                              loc>>

\* stmSendAddr's stmRecvAck: stmRun returns its value, stmWriteBlock and
\* stmReadBlock go on after an ACK.
stmSendAddr_ack ==
    /\ pc = "addr_ack"
    /\ IF loc.next = "return" THEN AckReturn ELSE Ack(loc.next)

\* assert(size > 0 && size <= MAX_BLOCK_SIZE), then n and its write.
stmSendBlock_n ==
    /\ pc = "block_n"
    /\ IF ~(loc.block.length > 0 /\ loc.block.length <= MAX_BLOCK_SIZE)
       THEN /\ pc' = "abort"
            /\ UNCHANGED <<result, retries, devParams, data, cnt, id, rd, tx,
                           dtr, rx, ioFailed, loc, main>>
       ELSE Send(<< blockN(loc.block.length) >>, "block_data",
                 [loc EXCEPT !.checksum = xorInto(blockN(loc.block.length),
                                                  loc.block.data)])

stmSendBlock_data ==
    /\ pc = "block_data"
    /\ Send(loc.block.data, "block_pad", [loc EXCEPT !.data = 0])

\* One pass of for(i = 0; i < padding; ++i), loc.data being i, or the write
\* of the checksum after the loop.
stmSendBlock_pad ==
    /\ pc = "block_pad"
    /\ IF loc.data < blockPadding(loc.block.length)
       THEN \E ok \in BOOLEAN :
               /\ serialWrite(<< \HFF >>, ok)
               /\ IF ok THEN pc' = pc /\ result' = result ELSE return(FALSE)
               /\ loc' = [loc EXCEPT !.checksum = bitXor(loc.checksum, \HFF),
                                     !.data = IF ok THEN loc.data + 1
                                              ELSE loc.data]
               /\ UNCHANGED <<retries, devParams, data, cnt, id, rd, dtr, rx,
                              main>>
       ELSE Send(<< loc.checksum >>, "block_ack", loc)

stmSendBlock_ack ==
    /\ pc = "block_ack"
    /\ AckReturn

stmWriteBlock_cmd ==
    /\ pc = "stmWriteBlock"
    /\ stmSendByte(CMD_WRITE_MEM, "wb_cmd_ack")
    /\ UNCHANGED <<retries, devParams, data, cnt, id, rd, dtr, rx, loc, main>>

stmWriteBlock_cmdAck ==
    /\ pc = "wb_cmd_ack"
    /\ Ack("addr")

stmWriteBlock ==
    \/ stmWriteBlock_cmd
    \/ stmWriteBlock_cmdAck
    \/ stmSendBlock_n
    \/ stmSendBlock_data
    \/ stmSendBlock_pad
    \/ stmSendBlock_ack

\* A loop test that does not look at ok.
goesOn_regardless(ok) == TRUE

\* The loop test of stmWrite and stmVerify left of the &&.
goesOn(ok) == ok

\* printProgressBar(bytesWritten * 100 / bufferSize), bufferSize being
\* SparseBuffer_size(buffer): where the loop is after it.  A division by a
\* bufferSize of 0 is undefined: it stops the program with a signal, or
\* yields some percentage and the loop goes on.
afterProgress(loop) ==
    IF SparseBuffer_size = 0 THEN {"abort", loop} ELSE {loop}

\* stmWrite up to its loop: the cmdSupported test and SparseBuffer_rewind.
Write_begin ==
    /\ pc = "stmWrite"
    /\ IF ~cmdSupported(CMD_WRITE_MEM)
       THEN return(FALSE) /\ UNCHANGED <<sbVars, loc>>
       ELSE /\ SparseBuffer_rewind
            /\ pc' = "write_loop"
            /\ result' = result
            /\ loc' = [loc EXCEPT !.ok = TRUE]
    /\ UNCHANGED <<retries, devParams, data, cnt, id, rd, tx, dtr, rx,
                   ioFailed, main>>

\* while(ok && (block = SparseBuffer_read(buffer, MAX_BLOCK_SIZE)).data):
\* the call of stmWriteBlock on the chunk read, or return ok.
Write_loop ==
    /\ pc = "write_loop"
    /\ IF ~goesOn(loc.ok)
       THEN return(loc.ok) /\ UNCHANGED <<sbVars, loc>>
       ELSE /\ SparseBuffer_read(MAX_BLOCK_SIZE)
            /\ IF lastRead'.kind = "chunk"
               THEN /\ pc' = "stmWriteBlock"
                    /\ result' = result
                    /\ loc' = [loc EXCEPT !.block = lastRead',
                                          !.callee = "stmWriteBlock",
                                          !.addr = lastRead'.offset,
                                          !.next = "block_n"]
               ELSE return(loc.ok) /\ loc' = loc
    /\ UNCHANGED <<retries, devParams, data, cnt, id, rd, tx, dtr, rx,
                   ioFailed, main>>

\* ok = stmWriteBlock(...), and the rest of the loop body, which ends with
\* the division of the progress bar.
Write_blockDone ==
    /\ pc = "done"
    /\ loc.callee = "stmWriteBlock"
    /\ \E p \in afterProgress("write_loop") : pc' = p
    /\ result' = "none"
    /\ loc' = [loc EXCEPT !.ok = (result = "true"), !.callee = "none"]
    /\ UNCHANGED <<sbVars, retries, devParams, data, cnt, id, rd, tx, dtr, rx,
                   ioFailed, main>>

stmWrite ==
    \/ Write_begin
    \/ Write_loop
    \/ Write_blockDone

stmReadBlock_cmd ==
    /\ pc = "stmReadBlock"
    /\ stmSendByte(CMD_READ_MEM, "rb_cmd_ack")
    /\ UNCHANGED <<retries, devParams, data, cnt, id, rd, dtr, rx, loc, main>>

stmReadBlock_cmdAck ==
    /\ pc = "rb_cmd_ack"
    /\ Ack("addr")

stmReadBlock_size ==
    /\ pc = "rb_size"
    /\ stmSendByte(uint8(loc.block.length - 1), "rb_size_ack")
    /\ UNCHANGED <<retries, devParams, data, cnt, id, rd, dtr, rx, loc, main>>

stmReadBlock_sizeAck ==
    /\ pc = "rb_size_ack"
    /\ Ack("rb_data")

\* The bytes the target may answer a READ_MEM of the chunk expected with:
\* the chunk, or a chunk that differs in its last byte.
differsAt(expected, i) ==
    [expected EXCEPT ![i] = 255 - expected[i]]

MemoryAnswers(expected) ==
    {expected, differsAt(expected, Len(expected))}

\* What read() can do in the serialRead of a chunk: report an error, time
\* out, deliver one byte of several, or deliver all that is left.
BlockReadResults(n) == {0 - 1, 0, n} \cup (IF n > 1 THEN {1} ELSE {})

\* The bytes the serialRead of stmReadBlock still has to read.
toReadBlock == IF rd.ret = "running" THEN rd.n ELSE loc.block.length

\* return serialRead(dev, buff, size): a pass of serialRead's loop.
stmReadBlock_data ==
    /\ pc = "rb_data"
    /\ \E res \in BlockReadResults(toReadBlock) :
          LET r == serialRead(toReadBlock, res)
          IN  /\ rd' = [n |-> r.n, last |-> res, ret |-> r.ret]
              /\ ioFailed' = (ioFailed \/ r.ret = "false")
              /\ CASE r.ret = "running" ->
                        /\ UNCHANGED <<pc, result, rx, loc>>
                   [] r.ret = "false" ->
                        /\ return(FALSE)
                        /\ UNCHANGED <<rx, loc>>
                   [] r.ret = "true" ->
                        \E answer \in MemoryAnswers(loc.block.data) :
                            /\ return(TRUE)
                            /\ rx' = rx \o answer
                            /\ loc' = [loc EXCEPT !.buff = answer]
    /\ UNCHANGED <<retries, devParams, data, cnt, id, tx, dtr, main>>

stmReadBlock ==
    \/ stmReadBlock_cmd
    \/ stmReadBlock_cmdAck
    \/ stmReadBlock_size
    \/ stmReadBlock_sizeAck
    \/ stmReadBlock_data

\* A comparison of the first byte only.
memcmpEqual_firstByte(a, b) == a[1] = b[1]

\* memcmp(a, b, n) == 0.
memcmpEqual(a, b) == a = b

Verify_begin ==
    /\ pc = "stmVerify"
    /\ IF ~cmdSupported(CMD_READ_MEM)
       THEN return(FALSE) /\ UNCHANGED <<sbVars, loc>>
       ELSE /\ SparseBuffer_rewind
            /\ pc' = "verify_loop"
            /\ result' = result
            /\ loc' = [loc EXCEPT !.ok = TRUE]
    /\ UNCHANGED <<retries, devParams, data, cnt, id, rd, tx, dtr, rx,
                   ioFailed, main>>

Verify_loop ==
    /\ pc = "verify_loop"
    /\ IF ~goesOn(loc.ok)
       THEN return(loc.ok) /\ UNCHANGED <<sbVars, loc>>
       ELSE /\ SparseBuffer_read(MAX_BLOCK_SIZE)
            /\ IF lastRead'.kind = "chunk"
               THEN /\ pc' = "stmReadBlock"
                    /\ result' = result
                    /\ loc' = [loc EXCEPT !.block = lastRead',
                                          !.callee = "stmReadBlock",
                                          !.addr = lastRead'.offset,
                                          !.next = "rb_size"]
               ELSE return(loc.ok) /\ loc' = loc
    /\ UNCHANGED <<retries, devParams, data, cnt, id, rd, tx, dtr, rx,
                   ioFailed, main>>

\* ok = stmReadBlock(...); if(ok) ok = (memcmp(...) == 0); and the division
\* of the progress bar.
Verify_blockDone ==
    /\ pc = "done"
    /\ loc.callee = "stmReadBlock"
    /\ \E p \in afterProgress("verify_loop") : pc' = p
    /\ result' = "none"
    /\ loc' = [loc EXCEPT !.ok = IF result = "true"
                                 THEN memcmpEqual(loc.block.data, loc.buff)
                                 ELSE FALSE,
                          !.callee = "none"]
    /\ UNCHANGED <<sbVars, retries, devParams, data, cnt, id, rd, tx, dtr, rx,
                   ioFailed, main>>

stmVerify ==
    \/ Verify_begin
    \/ Verify_loop
    \/ Verify_blockDone

Run_cmd ==
    /\ pc = "stmRun"
    /\ stmSendByte(CMD_GO, "run_cmd_ack")
    /\ UNCHANGED <<retries, devParams, data, cnt, id, rd, dtr, rx, loc, main>>

Run_cmdAck ==
    /\ pc = "run_cmd_ack"
    /\ Ack("addr")

stmRun ==
    \/ Run_cmd
    \/ Run_cmdAck

(***************************************************************************)
(* main of stm32sprog.c, from the call of stmGetDevParams on.              *)
(***************************************************************************)
DEFAULT_BAUD == 115200

\* The baud rates convertBaud has a case for.
SupportedBauds ==
    {1200, 1800, 2400, 4800, 9600, 19200, 38400, 57600, 115200, 230400}

\* The values atoi gives for the argument of -b.
BaudArgs == {9600, 12345}

\* The sizes of the files given with -w.
FileSizes == {1, 2, 3, 300}

\* The bytes the model holds of the file of size bytes: all of them up to
\* MaxFile bytes.  The bytes of the files repeat with a period of
\* MAX_BLOCK_SIZE, and of a longer file the model holds one period, the
\* file's block keeping its true length.
held(size) == IF size > MaxFile THEN MAX_BLOCK_SIZE ELSE size

\* The bytes of the file of size bytes.
FileData(size) == [i \in 1..held(size) |-> (i * 7) % 256]

\* main before it has parsed its arguments.
NoMain ==
    [at |-> "none", fileName |-> FALSE, size |-> 0, erase |-> FALSE,
     verify |-> FALSE, run |-> FALSE, buffer |-> FALSE, success |-> TRUE,
     addrs |-> <<>>, dev |-> FALSE, usage |-> FALSE, major |-> 0,
     minor |-> 0, script |-> <<>>, argv |-> <<>>, optind |-> 1,
     extra |-> 0, baud |-> DEFAULT_BAUD]

\* The options of the command lines main lets through to serialOpen: an
\* action is asked for, and -v comes with -w.
Options ==
    {o \in [fileName : BOOLEAN, size : FileSizes \cup {0}, erase : BOOLEAN,
            verify : BOOLEAN, run : BOOLEAN] :
        /\ o.erase \/ o.run \/ o.fileName
        /\ o.fileName \/ ~o.verify
        /\ o.fileName <=> o.size # 0}

\* A major version read from the low nibble plus one.
majorOf_low(ver) == (ver % 16) + 1

\* devParams.bootloaderVer >> 4 and devParams.bootloaderVer & 0x0F.
majorOf(ver) == ver \div 16
minorOf(ver) == ver % 16

\* main calls op with the locals l.
call(op, l) ==
    /\ pc' = op
    /\ result' = "none"
    /\ loc' = [l EXCEPT !.op = op, !.base = Len(tx), !.rbase = Len(rx)]

\* goto ExitApp.
exit(success) ==
    /\ pc' = "exit"
    /\ main' = [main EXCEPT !.at = "exit", !.success = success]
    /\ UNCHANGED <<result, loc>>

\* A test of success that never sees a failure.
failed_never(res) == FALSE

\* if(!success), on what the function main called returned.
failed(res) == res = "false"

\* The function main called has returned.
returned(at) ==
    /\ main.at = at
    /\ pc = "done"
    /\ loc.callee = "none"

\* One pass of while((opt = getopt(argc, argv, "b:d:ehrvw:")) != -1): the
\* option at optind, "x" being an option getopt does not know, or the end
\* of the options.  -h and an unknown option print the usage and go to
\* ExitApp with success as it is.
Main_getopt ==
    /\ main.at = "getopt"
    /\ IF main.optind > Len(main.argv)
       THEN /\ main' = [main EXCEPT !.at = "checks"]
            /\ pc' = pc
       ELSE LET opt == main.argv[main.optind]
                m == [main EXCEPT !.optind = @ + 1]
            IN  CASE opt = "b" ->
                       /\ \E b \in BaudArgs : main' = [m EXCEPT !.baud = b]
                       /\ pc' = pc
                  [] opt = "d" -> main' = m /\ pc' = pc
                  [] opt = "e" -> main' = [m EXCEPT !.erase = TRUE] /\ pc' = pc
                  [] opt = "r" -> main' = [m EXCEPT !.run = TRUE] /\ pc' = pc
                  [] opt = "v" ->
                       main' = [m EXCEPT !.verify = TRUE] /\ pc' = pc
                  [] opt = "w" ->
                       /\ \E size \in FileSizes :
                             main' = [m EXCEPT !.fileName = TRUE,
                                               !.size = size]
                       /\ pc' = pc
                  [] OTHER ->
                       /\ main' = [m EXCEPT !.usage = TRUE, !.at = "exit"]
                       /\ pc' = "exit"
    /\ UNCHANGED <<sbVars, result, retries, devParams, data, cnt, id, rd, tx,
                   dtr, rx, ioFailed, loc>>

\* The three tests of the arguments, each with its usage and goto ExitApp.
Main_checks ==
    /\ main.at = "checks"
    /\ IF main.extra # 0 THEN
           /\ main' = [main EXCEPT !.usage = TRUE, !.at = "exit",
                                   !.success = FALSE]
           /\ pc' = "exit"
       ELSE IF ~(main.erase \/ main.run \/ main.fileName) THEN
           /\ main' = [main EXCEPT !.usage = TRUE, !.at = "exit",
                                   !.success = FALSE]
           /\ pc' = "exit"
       ELSE IF ~(main.fileName \/ ~main.verify) THEN
           /\ main' = [main EXCEPT !.usage = TRUE, !.at = "exit",
                                   !.success = FALSE]
           /\ pc' = "exit"
       ELSE
           /\ main' = [main EXCEPT !.at = "open", !.success = TRUE]
           /\ pc' = pc
    /\ UNCHANGED <<sbVars, result, retries, devParams, data, cnt, id, rd, tx,
                   dtr, rx, ioFailed, loc>>

\* if(!success) goto ExitApp; after dev = serialOpen(...): the test is of
\* success, which the checks of the arguments left true, not of dev.
opens(dev, success) == success

\* dev = serialOpen(devName, baud), NULL for a baud rate convertBaud has no
\* case for and when malloc, open or the configuration fails;
\* if(!success) goto ExitApp; success = stmConnect().
Main_serialOpen ==
    /\ main.at = "open"
    /\ \E ok \in BOOLEAN :
          LET dev == ok /\ main.baud \in SupportedBauds
          IN  IF ~opens(dev, main.success)
              THEN /\ main' = [main EXCEPT !.dev = dev, !.at = "exit"]
                   /\ pc' = "exit"
              ELSE /\ main' = [main EXCEPT !.dev = dev, !.at = "connect"]
                   /\ pc' = "stmConnect"
    /\ UNCHANGED <<sbVars, result, retries, devParams, data, cnt, id, rd, tx,
                   dtr, rx, ioFailed, loc>>

\* success = stmGetDevParams(); if(!success) goto ExitApp; otherwise main
\* prints the bootloader version and goes on to read its options, which the
\* model draws here.
Main_discovered ==
    /\ returned("discover")
    /\ IF failed(result) THEN exit(FALSE)
       ELSE /\ \E o \in Options :
                  main' = [main EXCEPT
                              !.at = IF o.fileName THEN "file" ELSE "erase",
                              !.fileName = o.fileName, !.size = o.size,
                              !.erase = o.erase, !.verify = o.verify,
                              !.run = o.run,
                              !.major = majorOf(devParams.bootloaderVer),
                              !.minor = minorOf(devParams.bootloaderVer)]
            /\ UNCHANGED <<pc, result, loc>>
    /\ UNCHANGED <<sbVars, retries, devParams, data, cnt, id, rd, tx, dtr, rx,
                   ioFailed>>

\* buffer = readFirmware(fileName, &format): the file cannot be read (the
\* malloc(length) of an empty file may return NULL), or its bytes become one
\* block at offset 0, a block of length 0 for an empty file.
Main_readFirmware ==
    /\ main.at = "file"
    /\ \/ /\ exit(main.success)
          /\ UNCHANGED sbVars
       \/ /\ SparseBuffer_setBlock([offset |-> 0, length |-> main.size,
                                    data |-> FileData(main.size)])
          /\ main' = [main EXCEPT !.at = "offset", !.buffer = TRUE]
          /\ UNCHANGED <<pc, result, loc>>
    /\ UNCHANGED <<retries, devParams, data, cnt, id, rd, tx, dtr, rx,
                   ioFailed>>

\* if(format == RAW) SparseBuffer_offset(buffer, devParams.flashBeginAddr);
Main_offset ==
    /\ main.at = "offset"
    /\ SparseBuffer_offset(devParams.flashBeginAddr)
    /\ main' = [main EXCEPT !.at = "erase"]
    /\ UNCHANGED <<protoVars, loc>>

\* main's numPages for the file, a uint16_t.
filePages ==
    uint16((SparseBuffer_size + devParams.flashPageSize)
               \div devParams.flashPageSize)

\* if(erase) stmErase(); else if(buffer) stmEraseFlashPages(0, numPages);
Main_erase ==
    /\ main.at = "erase"
    /\ IF main.erase THEN
           /\ call("stmErase", NoLoc)
           /\ main' = [main EXCEPT !.at = "erased"]
       ELSE IF main.buffer THEN
           /\ call("stmEraseFlashPages",
                   [NoLoc EXCEPT !.first = 0, !.count = filePages])
           /\ main' = [main EXCEPT !.at = "erased"]
       ELSE
           /\ main' = [main EXCEPT !.at = "write"]
           /\ UNCHANGED <<pc, result, loc>>
    /\ UNCHANGED <<sbVars, retries, devParams, data, cnt, id, rd, tx, dtr, rx,
                   ioFailed>>

Main_erased ==
    /\ returned("erased")
    /\ IF failed(result) THEN exit(FALSE)
       ELSE /\ main' = [main EXCEPT !.at = "write"]
            /\ UNCHANGED <<pc, result, loc>>
    /\ UNCHANGED <<sbVars, retries, devParams, data, cnt, id, rd, tx, dtr, rx,
                   ioFailed>>

\* if(buffer) success = stmWrite(buffer);
Main_write ==
    /\ main.at = "write"
    /\ IF main.buffer THEN
           /\ call("stmWrite", NoLoc)
           /\ main' = [main EXCEPT !.at = "written"]
       ELSE
           /\ main' = [main EXCEPT !.at = "run"]
           /\ UNCHANGED <<pc, result, loc>>
    /\ UNCHANGED <<sbVars, retries, devParams, data, cnt, id, rd, tx, dtr, rx,
                   ioFailed>>

\* if(!success) goto ExitApp; if(verify) success = stmVerify(buffer);
Main_written ==
    /\ returned("written")
    /\ IF failed(result) THEN exit(FALSE)
       ELSE IF main.verify THEN
           /\ call("stmVerify", NoLoc)
           /\ main' = [main EXCEPT !.at = "verified"]
       ELSE
           /\ main' = [main EXCEPT !.at = "run"]
           /\ UNCHANGED <<pc, result, loc>>
    /\ UNCHANGED <<sbVars, retries, devParams, data, cnt, id, rd, tx, dtr, rx,
                   ioFailed>>

Main_verified ==
    /\ returned("verified")
    /\ IF failed(result) THEN exit(FALSE)
       ELSE /\ main' = [main EXCEPT !.at = "run"]
            /\ UNCHANGED <<pc, result, loc>>
    /\ UNCHANGED <<sbVars, retries, devParams, data, cnt, id, rd, tx, dtr, rx,
                   ioFailed>>

\* if(run) success = stmRun(devParams.flashBeginAddr);
Main_run ==
    /\ main.at = "run"
    /\ IF main.run THEN
           /\ call("stmRun", [NoLoc EXCEPT !.addr = devParams.flashBeginAddr,
                                           !.next = "return"])
           /\ main' = [main EXCEPT !.at = "ran"]
       ELSE exit(main.success)
    /\ UNCHANGED <<sbVars, retries, devParams, data, cnt, id, rd, tx, dtr, rx,
                   ioFailed>>

Main_ran ==
    /\ returned("ran")
    /\ exit(~failed(result))
    /\ UNCHANGED <<sbVars, retries, devParams, data, cnt, id, rd, tx, dtr, rx,
                   ioFailed>>

mainSteps ==
    \/ Main_discovered
    \/ Main_readFirmware
    \/ Main_offset
    \/ Main_erase
    \/ Main_erased
    \/ Main_write
    \/ Main_written
    \/ Main_verified
    \/ Main_run
    \/ Main_ran

(***************************************************************************)
(* Specifications.                                                         *)
(***************************************************************************)
vars == <<sbVars, protoVars, opVars>>

\* No operation of the driver in progress, main not started.
opInit ==
    /\ loc = NoLoc
    /\ main = NoMain

\* main after serialOpen has returned a device.
Opened == [NoMain EXCEPT !.dev = TRUE]

\* No operation of the driver in progress, the device open.
devInit ==
    /\ loc = NoLoc
    /\ main = Opened

\* The driver at control point start, nothing sent or received yet.
protoInit(start) ==
    /\ pc = start
    /\ result = "none"
    /\ retries = 0
    /\ devParams = NoDevParams
    /\ data = 0
    /\ cnt = 0
    /\ id = 0
    /\ rd = [n |-> 0, last |-> NoResult, ret |-> "none"]
    /\ tx = <<>>
    /\ dtr = <<>>
    /\ rx = <<>>
    /\ ioFailed = FALSE

Init == sbInit /\ protoInit("idle") /\ opInit

\* The operations of the sparse image, in any order.
Next ==
    /\ Set \/ Offset \/ Read \/ ReadFreed \/ Rewind
    /\ UNCHANGED <<protoVars, opVars>>

Spec == Init /\ [][Next]_vars

\* Runs of SparseBuffer_set alone.
SpecDeep == Init /\ [][SetDeep /\ UNCHANGED <<protoVars, opVars>>]_vars

\* The handshake against a target that may answer anything, or nothing.
InitConnect == sbInit /\ protoInit("stmConnect") /\ devInit

NextConnect == stmConnect /\ UNCHANGED <<sbVars, opVars>>

SpecConnect == InitConnect /\ [][NextConnect]_vars

\* Device discovery against a target that may answer anything, or nothing.
InitDiscover == sbInit /\ protoInit("stmGetDevParams") /\ devInit

NextDiscover == stmGetDevParams /\ UNCHANGED <<sbVars, opVars>>

SpecDiscover == InitDiscover /\ [][NextDiscover]_vars

\* Device discovery with devParams.commands as an earlier call may have left
\* it: nothing set, or everything.
EarlierCommands ==
    {NoCommands, [idx \in 0..(NUM_COMMANDS_KNOWN - 1) |-> TRUE]}

InitCommands ==
    /\ sbInit
    /\ devInit
    /\ pc = "stmGetDevParams"
    /\ result = "none"
    /\ retries = 0
    /\ devParams \in {[NoDevParams EXCEPT !.commands = c] :
                          c \in EarlierCommands}
    /\ data = 0
    /\ cnt = 0
    /\ id = 0
    /\ rd = [n |-> 0, last |-> NoResult, ret |-> "none"]
    /\ tx = <<>>
    /\ dtr = <<>>
    /\ rx = <<>>
    /\ ioFailed = FALSE

NextCommands == stmGetDevParams /\ UNCHANGED <<sbVars, opVars>>

SpecCommands == InitCommands /\ [][NextCommands]_vars

(***************************************************************************)
(* The sparse merge scenario: [100..200), then [150..300), then            *)
(* [200..210), each with its own bytes.                                    *)
(***************************************************************************)
MergeBlocks ==
    << [offset |-> 100, length |-> 100],
       [offset |-> 150, length |-> 150],
       [offset |-> 200, length |-> 10] >>

MergeInsert ==
    /\ nset < Len(MergeBlocks)
    /\ SparseBuffer_set(MergeBlocks[nset + 1].offset, MergeBlocks[nset + 1].length)

SpecMerge ==
    Init /\ [][(MergeInsert \/ Read \/ Rewind)
                /\ UNCHANGED <<protoVars, opVars>>]_vars

(***************************************************************************)
(* The program after discovery.  MaxCmds bounds the command list the       *)
(* target sends in the runs of stmGetDevParams; the targets with the       *)
(* command lists of the bootloaders enter as the states in which           *)
(* stmGetDevParams has returned true for them.                             *)
(***************************************************************************)
\* Command lists of GET_VERSION replies: of the bootloader with ERASE, of
\* the one with EXTENDED_ERASE, and lists without an erase, a write or a
\* read command.
EraseCommands ==
    << \H00, \H01, \H02, \H11, \H21, \H31, \H43, \H63, \H73, \H82, \H92 >>

ExtendedEraseCommands ==
    << \H00, \H01, \H02, \H11, \H21, \H31, \H44, \H63, \H73, \H82, \H92 >>

PartialCommands ==
    { << \H00, \H02, \H11, \H21, \H31 >>,
      << \H00, \H02, \H11, \H21, \H43 >>,
      << \H00, \H02, \H21, \H31, \H43 >> }

\* The targets: a command list and a product id, of parts with 32 and with
\* 256 flash pages.
Targets ==
    {[cmds |-> EraseCommands, pid |-> ID_LOW_DENSITY],
     [cmds |-> EraseCommands, pid |-> ID_HI_DENSITY],
     [cmds |-> ExtendedEraseCommands, pid |-> ID_HI_DENSITY]}
        \cup {[cmds |-> c, pid |-> ID_LOW_DENSITY] : c \in PartialCommands}

\* devParams.commands after the GET_VERSION reply listed cmds.
commandsOf(cmds) ==
    [idx \in 0..(NUM_COMMANDS_KNOWN - 1) |->
        \E k \in DOMAIN cmds : cmdIndex(cmds[k]) = idx]

\* devParams after stmGetDevParams has returned true for the target t.
targetParams(t) ==
    idGeometry([defaultGeometry(NoDevParams) EXCEPT
                   !.bootloaderVer = \H22,
                   !.commands = commandsOf(t.cmds)], t.pid)

\* The frames stmGetDevParams sends, and what the target t answers to them.
discoveryFrames ==
    << CMD_GET_VERSION, 255 - CMD_GET_VERSION, CMD_GET_ID, 255 - CMD_GET_ID >>

targetReply(t) ==
    << ACK, Len(t.cmds), \H22 >> \o t.cmds
        \o << ACK, ACK, 1, t.pid \div 256, t.pid % 256, ACK >>

\* The driver after stmGetDevParams has returned true for the target t.
discovered(t) ==
    /\ retries = 0
    /\ devParams = targetParams(t)
    /\ data = t.pid % 256
    /\ cnt = 0 - 1
    /\ id = t.pid
    /\ rd = [n |-> 0, last |-> 1, ret |-> "true"]
    /\ tx = discoveryFrames
    /\ dtr = <<>>
    /\ rx = targetReply(t)
    /\ ioFailed = FALSE

\* The driver after stmConnect was acknowledged at its first attempt and
\* stmGetDevParams has returned true for the target t.
connected(t) ==
    /\ retries = 1
    /\ devParams = targetParams(t)
    /\ data = t.pid % 256
    /\ cnt = 0 - 1
    /\ id = t.pid
    /\ rd = [n |-> 0, last |-> 1, ret |-> "true"]
    /\ tx = << \H7F >> \o discoveryFrames
    /\ dtr = << TRUE, FALSE >>
    /\ rx = << ACK >> \o targetReply(t)
    /\ ioFailed = FALSE

\* First pages and page counts of calls of stmEraseFlashPages.
PageFirsts == {0, 1, 255, 256, \HFFFF}
PageCounts == {0, 1, 2, 3, 255, 256, 257, \HFFF0, \HFFF1}

\* stmEraseFlashPages(first, count) on a discovered target.
InitErasePages ==
    /\ sbInit
    /\ \E t \in Targets : discovered(t)
    /\ pc = "stmEraseFlashPages"
    /\ result = "none"
    /\ \E first \in PageFirsts, count \in PageCounts :
          loc = [NoLoc EXCEPT !.op = "stmEraseFlashPages", !.first = first,
                              !.count = count, !.base = Len(tx),
                              !.rbase = Len(rx)]
    /\ main = Opened

NextErasePages == stmEraseFlashPages /\ UNCHANGED sbVars

SpecErasePages == InitErasePages /\ [][NextErasePages]_vars

\* main at the call of stmGetDevParams, or at its return for a discovered
\* target.
InitMain ==
    /\ sbInit
    /\ \/ protoInit("stmGetDevParams")
       \/ /\ \E t \in Targets : discovered(t)
          /\ pc = "done"
          /\ result = "true"
    /\ loc = NoLoc
    /\ main = [Opened EXCEPT !.at = "discover"]

NextMain ==
    \/ stmGetDevParams /\ UNCHANGED <<sbVars, opVars>>
    \/ mainSteps
    \/ /\ \/ stmErase
          \/ stmEraseFlashPages
          \/ stmSendAddr
          \/ stmSendAddr_ack
          \/ stmWriteBlock
          \/ stmReadBlock
          \/ stmRun
       /\ UNCHANGED sbVars
    \/ stmWrite
    \/ stmVerify

SpecMain == InitMain /\ [][NextMain]_vars

(***************************************************************************)
(* main from its arguments to the DTR pulse of stmConnect.  A command line *)
(* is at most MaxArgs options, "x" being one getopt does not know, and     *)
(* zero or one further argument.                                           *)
(***************************************************************************)
OptionLetters == {"b", "d", "e", "h", "r", "v", "w", "x"}

CommandLines ==
    UNION {[1..n -> OptionLetters] : n \in 0..MaxArgs}

InitStart ==
    /\ sbInit
    /\ protoInit("main")
    /\ loc = NoLoc
    /\ \E a \in CommandLines, x \in 0..1 :
          main = [NoMain EXCEPT !.at = "getopt", !.argv = a, !.extra = x]

NextStart ==
    \/ Main_getopt
    \/ Main_checks
    \/ Main_serialOpen
    \/ stmConnect_pulse
          /\ UNCHANGED <<sbVars, opVars>>

SpecStart == InitStart /\ [][NextStart]_vars

(***************************************************************************)
(* main from readFirmware to the return of stmEraseFlashPages, for files   *)
(* of about one and two pages written without -e.                          *)
(***************************************************************************)
PageFileSizes == {1, 1023, 1024, 1025, 2048, 2049}

InitPages ==
    /\ sbInit
    /\ \E t \in Targets : discovered(t)
    /\ pc = "done"
    /\ result = "true"
    /\ loc = NoLoc
    /\ \E size \in PageFileSizes, v, r \in BOOLEAN :
          main = [Opened EXCEPT !.at = "file", !.fileName = TRUE,
                                !.size = size, !.verify = v, !.run = r,
                                !.major = majorOf(\H22),
                                !.minor = minorOf(\H22)]

NextPages ==
    \/ Main_readFirmware
    \/ Main_offset
    \/ Main_erase
    \/ stmEraseFlashPages /\ UNCHANGED sbVars
    \/ Main_erased

SpecPages == InitPages /\ [][NextPages]_vars

(***************************************************************************)
(* The discovery scenario: main calls stmGetDevParams on a medium-density  *)
(* target that sends the bytes of MediumDensityReply.                      *)
(***************************************************************************)
MediumDensityReply ==
    << ACK, \H0B, \H22 >> \o EraseCommands
        \o << ACK, ACK, \H01, \H04, \H10, ACK >>

InitScenario ==
    /\ sbInit
    /\ protoInit("stmGetDevParams")
    /\ loc = NoLoc
    /\ main = [Opened EXCEPT !.at = "discover", !.script = MediumDensityReply]

NextScenario ==
    \/ stmGetDevParams /\ UNCHANGED <<sbVars, opVars>>
    \/ Main_discovered

SpecScenario == InitScenario /\ [][NextScenario]_vars

(***************************************************************************)
(* overlap and Node_addData of sparse-buffer.c, called on their own.       *)
(***************************************************************************)
\* The blocks overlap is called with: short ones at low offsets, and ones
\* whose end passes the end of size_t.
SpanBlocks ==
    {[offset |-> o, length |-> l, data |-> Payload(1, l)] :
        o \in 0..MaxSpan, l \in 0..MaxSpan}

WrapBlocks ==
    {[offset |-> SizeMod - 1, length |-> l, data |-> Payload(1, l)] :
        l \in 1..2}

InitOverlap ==
    /\ sbInit
    /\ protoInit("overlap")
    /\ main = NoMain
    /\ \E b1 \in SpanBlocks \cup WrapBlocks, b2 \in SpanBlocks :
          loc = [NoLoc EXCEPT !.op = "overlap", !.block1 = b1, !.block2 = b2]

\* return overlap(block1, block2);
Overlap_call ==
    /\ pc = "overlap"
    /\ return(overlap(loc.block1, loc.block2))
    /\ UNCHANGED <<sbVars, retries, devParams, data, cnt, id, rd, tx, dtr, rx,
                   ioFailed, opVars>>

NextOverlap == Overlap_call

SpecOverlap == InitOverlap /\ [][NextOverlap]_vars


\* Node_addData(self, block) on a node that holds the block E: the blocks E
\* and N it is called with.
MergeNodes ==
    {[Node_create(1) EXCEPT !.block = [offset |-> o, length |-> l,
                                       data |-> Payload(1, l)],
                            !.ptr = "valid"] :
        o \in 0..MaxSpan, l \in 1..MaxSpan}

NewBlocks ==
    {[offset |-> o, length |-> l, data |-> Payload(2, l)] :
        o \in 0..MaxSpan, l \in 1..MaxSpan}

InitAddData ==
    /\ sbInit
    /\ protoInit("Node_addData")
    /\ main = NoMain
    /\ \E e \in MergeNodes, n \in NewBlocks :
          loc = [NoLoc EXCEPT !.op = "Node_addData", !.self = e,
                              !.before = e, !.block = n]

\* assert(overlap(block, self->block)), and the rest of Node_addData with
\* the outcome r of its realloc.
AddData_call ==
    /\ pc = "Node_addData"
    /\ IF ~overlap(loc.block, loc.self.block)
       THEN pc' = "abort" /\ loc' = loc
       ELSE \E r \in (IF callsRealloc(loc.self, loc.block)
                      THEN ReallocOutcomes ELSE {"same"}) :
               LET a == Node_addData(loc.self, loc.block, r)
               IN  /\ pc' = (IF a.aborted THEN "abort" ELSE "done")
                   /\ loc' = (IF a.aborted THEN loc
                              ELSE [loc EXCEPT !.self = a.node])
    /\ UNCHANGED <<sbVars, result, retries, devParams, data, cnt, id, rd, tx,
                   dtr, rx, ioFailed, main>>

NextAddData == AddData_call

SpecAddData == InitAddData /\ [][NextAddData]_vars

(***************************************************************************)
(* Two images given the same SparseBuffer_set calls, randomHeight drawing  *)
(* for each its own heights, no realloc moving the storage.                *)
(***************************************************************************)
\* The stored blocks of the image of nodes N, in level-0 order.
blocksOf(N) ==
    [i \in 1..(Len(listFrom(N, begin)) - 1) |-> N[listFrom(N, begin)[i + 1]].block]

\* SparseBuffer_set(block) on the image of nodes N with the cursor c, the
\* new node, if one is made, getting the height h.
setWith(N, c, block, h) ==
    LET s == setSearch(N, begin, MaxHeight - 1, NoLinks, block)
    IN  IF s.found # NULL
        THEN setMerge(N, c, block, s.found, "same", "same")
        ELSE setInsert(N, c, block, s.prev, h)

InitHeights == sbInit /\ protoInit("idle") /\ opInit

SetBoth ==
    /\ nset < MaxInserts
    /\ \E off \in 0..MaxOffset, len \in 1..MaxLen, h1, h2 \in randomHeight :
          LET block == [offset |-> off, length |-> len,
                        data |-> Payload(nset + 1, len)]
          IN  /\ setDone(setWith(nodes, curr, block, h1), block)
              /\ loc' = [loc EXCEPT
                            !.other = setWith(loc.other, begin, block, h2).nodes]
    /\ UNCHANGED <<protoVars, main>>

NextHeights == SetBoth

SpecHeights == InitHeights /\ [][NextHeights]_vars

(***************************************************************************)
(* main from readFirmware to ExitApp after a handshake acknowledged at the *)
(* first attempt and a discovery that succeeded, for a one-byte file and   *)
(* for the file of 65535 pages.  The target that is sent the long file     *)
(* answers nothing after the discovery.                                    *)
(***************************************************************************)
RunFileSizes(pageSize) == {1, 65535 * pageSize}

InitRun ==
    /\ sbInit
    /\ \E t \in Targets : connected(t)
    /\ pc = "done"
    /\ result = "true"
    /\ loc = NoLoc
    /\ \E size \in RunFileSizes(devParams.flashPageSize),
          f, e, v, r \in BOOLEAN :
          /\ e \/ r \/ f
          /\ f \/ ~v
          /\ main = [Opened EXCEPT
                        !.at = IF f THEN "file" ELSE "erase",
                        !.fileName = f,
                        !.size = IF f THEN size ELSE 0,
                        !.erase = e, !.verify = v, !.run = r,
                        !.major = majorOf(\H22),
                        !.minor = minorOf(\H22),
                        !.script = IF f /\ size > MaxFile THEN rx ELSE <<>>]

NextRun ==
    \/ Main_readFirmware
    \/ Main_offset
    \/ Main_erase
    \/ Main_erased
    \/ Main_write
    \/ Main_written
    \/ Main_verified
    \/ Main_run
    \/ Main_ran
    \/ /\ \/ stmErase
          \/ stmEraseFlashPages
          \/ stmSendAddr
          \/ stmSendAddr_ack
          \/ stmWriteBlock
          \/ stmReadBlock
          \/ stmRun
       /\ UNCHANGED sbVars
    \/ stmWrite
    \/ stmVerify

SpecRun == InitRun /\ [][NextRun]_vars


(***************************************************************************)
(* main from readFirmware to ExitApp after a handshake acknowledged at the *)
(* first attempt and a discovery that succeeded, for the empty file and    *)
(* for files of one chunk and of two.                                      *)
(***************************************************************************)
ChunkFileSizes == {0, 1, MAX_BLOCK_SIZE, MAX_BLOCK_SIZE + 1}

InitChunks ==
    /\ sbInit
    /\ \E t \in Targets : connected(t)
    /\ pc = "done"
    /\ result = "true"
    /\ loc = NoLoc
    /\ \E size \in ChunkFileSizes, e, v, r \in BOOLEAN :
          main = [Opened EXCEPT
                     !.at = "file", !.fileName = TRUE, !.size = size,
                     !.erase = e, !.verify = v, !.run = r,
                     !.major = majorOf(devParams.bootloaderVer),
                     !.minor = minorOf(devParams.bootloaderVer)]

SpecChunks == InitChunks /\ [][NextRun]_vars


(***************************************************************************)
(* main -e -w from readFirmware to the return of stmWrite, for a file that *)
(* fills the flash of the part with 32 pages and for a file one byte       *)
(* longer, on a target that acknowledges whatever it is sent.  The runs    *)
(* start at readFirmware, or where the write loop is once all the chunks   *)
(* of the file but its last two have been written and acknowledged.        *)
(***************************************************************************)
SmallTarget == [cmds |-> EraseCommands, pid |-> ID_LOW_DENSITY]

flashSize(t) == targetParams(t).flashEndAddr - targetParams(t).flashBeginAddr

FlashFileSizes == {flashSize(SmallTarget), flashSize(SmallTarget) + 1}

\* A target that answers ACK to every frame after the discovery: to those
\* of the erase and to the three of each chunk.
acksAll(size) ==
    rx \o [i \in 1..(3 * ((size + MAX_BLOCK_SIZE) \div MAX_BLOCK_SIZE) + 4) |->
              ACK]

\* main before readFirmware, -e -w given.
flashMain(size) ==
    [Opened EXCEPT !.at = "file", !.fileName = TRUE, !.size = size,
                   !.erase = TRUE,
                   !.major = majorOf(targetParams(SmallTarget).bootloaderVer),
                   !.minor = minorOf(targetParams(SmallTarget).bootloaderVer)]

\* The chunks of the file of size bytes but its last two.
chunksBefore(size) == ((size + MAX_BLOCK_SIZE - 1) \div MAX_BLOCK_SIZE) - 2

\* The k-th chunk of a file of more than k + 1 chunks, flash at flashBegin.
fullChunk(size, flashBegin, k) ==
    [kind |-> "chunk", offset |-> flashBegin + MAX_BLOCK_SIZE * k,
     length |-> MAX_BLOCK_SIZE,
     data |-> [i \in 1..MAX_BLOCK_SIZE |-> FileData(size)[i]]]

\* What the program has sent once the discovery, the global erase and the
\* first k chunks are done: byte by byte, each chunk being a WRITE_MEM
\* frame, the address buffer, the length byte, the chunk and its checksum.
sentAfter(size, k) ==
    LET head == << \H7F >> \o discoveryFrames
                    \o << CMD_ERASE, 255 - CMD_ERASE, \HFF, \H00 >>
        flashBegin == targetParams(SmallTarget).flashBeginAddr
        chunk == fullChunk(size, flashBegin, 0)
        n == blockN(chunk.length)
        checksum == xorInto(n, chunk.data)
        each == MAX_BLOCK_SIZE + 9
        byte(c, j) ==
            IF j = 1 THEN CMD_WRITE_MEM
            ELSE IF j = 2 THEN 255 - CMD_WRITE_MEM
            ELSE IF j <= 7
                 THEN addrBuffer(flashBegin + MAX_BLOCK_SIZE * c)[j - 2]
            ELSE IF j = 8 THEN n
            ELSE IF j < each THEN chunk.data[j - 8]
            ELSE checksum
    IN  [i \in 1..(Len(head) + each * k) |->
            IF i <= Len(head) THEN head[i]
            ELSE byte((i - Len(head) - 1) \div each,
                      ((i - Len(head) - 1) % each) + 1)]

\* The program in the loop of stmWrite, the first k chunks of the file of
\* size bytes written and acknowledged, the file's node being of height h.
wroteChunks(size, k, h) ==
    LET params == targetParams(SmallTarget)
        flashBegin == params.flashBeginAddr
        answered == << ACK >> \o targetReply(SmallTarget)
        block == [offset |-> 0, length |-> size, data |-> FileData(size)]
        image == setInsert(begin :> Node_create(MaxHeight), begin, block,
                           [l \in Levels |-> begin], h).nodes
        last == fullChunk(size, flashBegin, k - 1)
    IN  /\ nodes = offsetNodes(image, flashBegin)
        /\ curr = image[begin].next[0]
        /\ pos = flashBegin + MAX_BLOCK_SIZE * k
        /\ aborted = FALSE
        /\ lastRead = last
        /\ nset = 1
        /\ nshift = 1
        /\ written = [a \in heldAddrs([block EXCEPT !.offset = flashBegin]) |->
                        block.data[a - flashBegin + 1]]
        /\ drain = NoDrain
        /\ hist = NoHist
        /\ pc = "write_loop"
        /\ result = "none"
        /\ retries = 1
        /\ devParams = params
        /\ data = SmallTarget.pid % 256
        /\ cnt = 0 - 1
        /\ id = SmallTarget.pid
        /\ rd = [n |-> 0, last |-> 1, ret |-> "true"]
        /\ tx = sentAfter(size, k)
        /\ dtr = << TRUE, FALSE >>
        /\ rx = answered \o [i \in 1..(2 + 3 * k) |-> ACK]
        /\ ioFailed = FALSE
        /\ loc = [NoLoc EXCEPT
                     !.op = "stmWrite", !.base = Len(sentAfter(size, 0)),
                     !.rbase = Len(answered) + 2, !.block = last,
                     !.addr = last.offset, !.next = "block_n",
                     !.checksum = xorInto(blockN(last.length), last.data)]
        /\ main = [flashMain(size) EXCEPT
                      !.at = "written", !.buffer = TRUE,
                      !.addrs = [j \in 1..k |->
                                    flashBegin + MAX_BLOCK_SIZE * (j - 1)],
                      !.script = answered \o
                          [i \in 1..(3 * ((size + MAX_BLOCK_SIZE)
                                              \div MAX_BLOCK_SIZE) + 4) |-> ACK]]

InitFlash ==
    \E size \in FlashFileSizes :
        \/ /\ sbInit
           /\ connected(SmallTarget)
           /\ pc = "done"
           /\ result = "true"
           /\ loc = NoLoc
           /\ main = [flashMain(size) EXCEPT !.script = acksAll(size)]
        \/ \E h \in randomHeight : wroteChunks(size, chunksBefore(size), h)

NextFlash ==
    \/ Main_readFirmware
    \/ Main_offset
    \/ Main_erase
    \/ Main_erased
    \/ Main_write
    \/ Main_written
    \/ Main_run
    \/ /\ \/ stmErase
          \/ stmSendAddr
          \/ stmSendAddr_ack
          \/ stmWriteBlock
       /\ UNCHANGED sbVars
    \/ stmWrite

SpecFlash == InitFlash /\ [][NextFlash]_vars

(***************************************************************************)
(* Claims about the sparse image.                                          *)
(***************************************************************************)
covers(block, a) == a >= block.offset /\ a < block.offset + block.length

\* C1: after any sequence of SparseBuffer_set calls the blocks along the
\* level-0 list are strictly sorted by offset, and no two consecutive blocks
\* overlap or touch: A.offset + A.length < B.offset.
C1_SortedNonTouching ==
    \A i \in 1..(Len(Blocks) - 1) :
        Blocks[i].offset + Blocks[i].length < Blocks[i + 1].offset

\* C2: later writes win: every address an insert covered is held by the
\* image, with the byte of the last insert that covered it, and a read
\* returns those bytes.
C2_LaterWritesWin ==
    /\ \A a \in DOMAIN written :
        /\ \E i \in DOMAIN Blocks : covers(Blocks[i], a)
        /\ \A i \in DOMAIN Blocks :
              covers(Blocks[i], a) =>
                  Blocks[i].data[a - Blocks[i].offset + 1] = written[a]
    /\ lastRead.kind = "chunk" =>
          \A j \in 1..lastRead.length :
              /\ (lastRead.offset + j - 1) \in DOMAIN written
              /\ lastRead.data[j] = written[lastRead.offset + j - 1]

\* C3: SparseBuffer_size is the number of distinct addresses covered by the
\* union of the inserted ranges.
C3_SizeIsUnion ==
    SparseBuffer_size = Cardinality(DOMAIN written)

\* C4: after the three inserts of the merge scenario the image is the single
\* block [100..310), holding at [150..300) the bytes of the second write
\* except at [200..210), where it holds those of the third.
C4_MergeScenario ==
    (nset = 3 /\ ~aborted) =>
        /\ Len(Blocks) = 1
        /\ Blocks[1].offset = 100
        /\ Blocks[1].offset + Blocks[1].length = 310
        /\ \A a \in 150..299 :
              Blocks[1].data[a - 100 + 1] =
                  IF a \in 200..209 THEN Payload(3, 10)[a - 200 + 1]
                  ELSE Payload(2, 150)[a - 150 + 1]

RECURSIVE sumChunks(_)
sumChunks(chunks) ==
    IF chunks = <<>> THEN 0 ELSE Head(chunks).length + sumChunks(Tail(chunks))

\* C5: rewind, then read(ChunkLen) until the sentinel: the chunks' lengths
\* sum to SparseBuffer_size, each chunk lies inside one stored block, the
\* chunks are in ascending address order and cover every stored byte exactly
\* once, and after the sentinel every further read returns the sentinel.
C5_DrainIsPartition ==
    (drain.active /\ drain.ended) =>
        /\ sumChunks(drain.chunks) = SparseBuffer_size
        /\ \A j \in DOMAIN drain.chunks :
              \E i \in DOMAIN Blocks :
                  /\ Blocks[i].offset <= drain.chunks[j].offset
                  /\ drain.chunks[j].offset + drain.chunks[j].length
                        <= Blocks[i].offset + Blocks[i].length
        /\ \A j \in 1..(Len(drain.chunks) - 1) :
              drain.chunks[j].offset + drain.chunks[j].length
                  <= drain.chunks[j + 1].offset
        /\ \A i \in DOMAIN Blocks :
              \A a \in blockAddrs(Blocks[i]) :
                  Cardinality({j \in DOMAIN drain.chunks :
                                  covers(drain.chunks[j], a)}) = 1
        /\ ~drain.again

\* C6: SparseBuffer_offset(+delta) followed by SparseBuffer_offset(-delta)
\* restores every block's offset and the cursor; lengths, bytes and links are
\* unchanged.
C6_ShiftRoundTrip ==
    hist.kind = "restored" => Image = hist.before

\* A round trip of a nonzero delta, on an image of two blocks or more, with
\* the cursor inside a block.
C6_Witness ==
    /\ hist.kind = "restored"
    /\ hist.delta # 0
    /\ Len(Blocks) >= 2
    /\ curr \in NodeIds
    /\ pos < nodes[curr].block.offset + nodes[curr].block.length

(***************************************************************************)
(* Claims about the handshake and the transport.                           *)
(***************************************************************************)
\* The number of 0x7F bytes on the line.
sent == Len(tx)

noAckIn(bytes) == \A j \in DOMAIN bytes : bytes[j] # ACK

\* C7: stmConnect sends 0x7F once and then up to 10 more times: it returns
\* false only after an 11th send has gone unacknowledged, so a target that
\* answers the first 10 sends with a non-ACK byte is sent an 11th 0x7F.
C7_ElevenSends ==
    (pc = "done" /\ result = "false" /\ ~ioFailed) => sent = MAX_RETRIES + 1

\* C8: for k in 0..9, a target that answers the first k sends with a non-ACK
\* byte and the next with ACK is connected to after exactly k + 1 sends,
\* with no further 0x7F sent: once the ACK is in, the handshake has returned
\* true with k + 1 bytes on the line, and while fewer than 10 sends have been
\* answered, none with ACK, it has not returned.
C8_AckAfterK ==
    ~ioFailed =>
        /\ (rx # <<>> /\ rx[Len(rx)] = ACK) =>
              /\ pc = "done" /\ result = "true"
              /\ noAckIn(SubSeq(rx, 1, Len(rx) - 1))
              /\ Len(rx) - 1 \in 0..9
              /\ sent = Len(rx)
        /\ (noAckIn(rx) /\ Len(rx) \in 0..9) => result = "none"

\* The target answered 9 sends with a non-ACK byte and the 10th with ACK.
C8_Witness ==
    /\ ~ioFailed
    /\ pc = "done" /\ result = "true"
    /\ Len(rx) = 10 /\ rx[10] = ACK /\ noAckIn(SubSeq(rx, 1, 9))
    /\ sent = 10

\* C9 as stated: serialRead returns false when a read() times out (returns
\* 0) with bytes still missing.
C9_TimeoutFails ==
    (rd.last = 0 /\ rd.n > 0) => rd.ret = "false"

\* C9: serialRead returns false only when read() has reported an error, and
\* true only when all the bytes are in; after a read() that timed out with
\* bytes still missing it is still reading: a driver step that awaits a
\* reply does not return while the target stays silent.
C9_TimeoutRetried ==
    /\ rd.ret = "false" => rd.last < 0
    /\ rd.ret = "true" => (rd.n = 0 /\ rd.last > 0)
    /\ (rd.last = 0 /\ rd.n > 0) =>
          (rd.ret = "running" /\ pc # "done" /\ result = "none")

\* A read() has timed out while stmConnect waits for the answer to a send.
C9_Witness ==
    /\ pc = "connect_ack"
    /\ sent >= 1
    /\ rd.ret = "running" /\ rd.last = 0 /\ rd.n = 1

(***************************************************************************)
(* Claims about device discovery.                                          *)
(***************************************************************************)
\* The geometry table: product id -> <<flash end, page size, pages per
\* sector>>.
GeometryTable ==
    (\H0412 :> <<\H08008000, 1024, 4>>) @@ (\H0410 :> <<\H08020000, 1024, 4>>) @@
    (\H0414 :> <<\H08080000, 2048, 2>>) @@ (\H0418 :> <<\H08040000, 2048, 2>>) @@
    (\H0420 :> <<\H08020000, 1024, 4>>) @@ (\H0428 :> <<\H08080000, 2048, 2>>) @@
    (\H0430 :> <<\H08100000, 2048, 2>>) @@ (\H0436 :> <<\H08060000, 256, 16>>) @@
    (\H0416 :> <<\H08020000, 256, 16>>)

\* The product id the target sent: the two bytes before the closing ACK of
\* the GET_ID reply, most significant first.
receivedId == rx[Len(rx) - 2] * 256 + rx[Len(rx) - 1]

\* C10: when discovery has returned true, the product id the target sent,
\* read big-endian, is a row of the geometry table, flashBeginAddr is
\* 0x08000000 and flashEndAddr, flashPageSize and flashPagesPerSector are
\* those of the row.
C10_GeometryOfId ==
    (pc = "done" /\ result = "true") =>
        /\ receivedId \in DOMAIN GeometryTable
        /\ devParams.flashBeginAddr = \H08000000
        /\ <<devParams.flashEndAddr, devParams.flashPageSize,
             devParams.flashPagesPerSector>> = GeometryTable[receivedId]

\* Discovery has returned true for the target that sent 0x04 0x36.
C10_Witness ==
    /\ pc = "done" /\ result = "true"
    /\ rx[Len(rx) - 2] = \H04 /\ rx[Len(rx) - 1] = \H36
    /\ devParams.flashPageSize = 256

(***************************************************************************)
(* Claims about the erase, write, verify and go operations.                *)
(***************************************************************************)
\* The bytes written since the operation in progress was called.
sentSince == SubSeq(tx, loc.base + 1, Len(tx))

\* The bytes read since the operation in progress was called.
recvSince == SubSeq(rx, loc.rbase + 1, Len(rx))

\* Whether s begins with p.
startsWith(s, p) == Len(s) >= Len(p) /\ SubSeq(s, 1, Len(p)) = p

\* C18: for every (first, count) stmEraseFlashPages accepts, the page loop
\* ends after exactly count page indices, first to first + count - 1, and
\* the checksum and the wait for the ACK follow: the loop never emits more
\* than count indices, and the operation waits for the last ACK with
\* exactly count emitted.  This covers ERASE with first + count = 256 and
\* EXTENDED_ERASE with any first.
C18_PageLoopEnds ==
    (loc.count > 0 /\ pc \in {"pages_loop", "pagesx_loop", "pages_ack"}) =>
        /\ loc.emitted <= loc.count
        /\ pc = "pages_ack" => loc.emitted = loc.count

\* C19: stmEraseFlashPages rejects an out-of-range request before it writes
\* a byte: with ERASE a count above 256 or a range that reaches a page index
\* above 255, with EXTENDED_ERASE a count above 0xFFF0; it returns false and
\* nothing has been written.  A count of 1 up to the limit from page 0 is
\* accepted: the call does not return with nothing written unless the write
\* of the command frame failed.
C19_RangeChecked ==
    loc.op = "stmEraseFlashPages" =>
        /\ ( \/ /\ cmdSupported(CMD_ERASE)
                 /\ loc.count >= 1
                 /\ (loc.count > 256 \/ loc.first + loc.count - 1 > 255)
              \/ /\ ~cmdSupported(CMD_ERASE)
                 /\ cmdSupported(CMD_EXTENDED_ERASE)
                 /\ loc.count > \HFFF0 ) =>
                /\ sentSince = <<>>
                /\ pc \in {"stmEraseFlashPages", "done"}
                /\ pc = "done" => result = "false"
        /\ ( /\ loc.first = 0
             /\ loc.count >= 1
             /\ \/ (cmdSupported(CMD_ERASE) /\ loc.count <= 256)
                \/ /\ ~cmdSupported(CMD_ERASE)
                   /\ cmdSupported(CMD_EXTENDED_ERASE)
                   /\ loc.count <= \HFFF0
             /\ pc = "done"
             /\ sentSince = <<>> ) => ioFailed

\* A count of 0xFFF1 has been rejected on a target with EXTENDED_ERASE, and
\* nothing was written.
C19_Witness ==
    /\ loc.op = "stmEraseFlashPages"
    /\ ~cmdSupported(CMD_ERASE)
    /\ cmdSupported(CMD_EXTENDED_ERASE)
    /\ loc.count = \HFFF1
    /\ pc = "done"
    /\ result = "false"
    /\ sentSince = <<>>
    /\ ~ioFailed

\* The command frame and the global form stmErase writes on the target at
\* hand.
globalErase ==
    IF cmdSupported(CMD_ERASE)
    THEN << \H43, \HBC, \HFF, \H00 >>
    ELSE << \H44, \HBB, \HFF, \HFF, \H00 >>

\* stmErase has gone on to the page-by-page erase.
fellBack == loc.op = "stmErase" /\ loc.count > 0

\* C20: stmErase writes the command frame and the global form (0xFF 0x00
\* for ERASE, 0xFF 0xFF 0x00 for EXTENDED_ERASE) and waits.  If the target
\* answers ACK (no call of the serial line having failed) it returns true
\* and no page-erase frame is written.  If the target answers something
\* else it goes on to
\* stmEraseFlashPages(0, (flashEndAddr - flashBeginAddr) / flashPageSize),
\* and it returns true exactly when that page erase is acknowledged.
C20_EraseAll ==
    (loc.op = "stmErase" /\ main.at = "erased") =>
        /\ pc = "erase_ack" => sentSince = globalErase
        /\ ( /\ ~ioFailed
             /\ Len(recvSince) >= 2
             /\ recvSince[1] = ACK
             /\ recvSince[2] = ACK ) =>
              /\ pc = "done" /\ result = "true"
              /\ sentSince = globalErase
              /\ ~fellBack
        /\ (Len(recvSince) >= 2 /\ recvSince[1] = ACK /\ recvSince[2] # ACK) =>
              /\ fellBack
              /\ loc.first = 0
              /\ loc.count = (devParams.flashEndAddr - devParams.flashBeginAddr)
                                 \div devParams.flashPageSize
              /\ startsWith(sentSince, globalErase)
        /\ (pc = "done" /\ result = "true" /\ ~fellBack) =>
              recvSince = << ACK, ACK >>
        /\ (pc = "done" /\ fellBack /\ ~ioFailed) =>
              (result = "true" <=>
                  /\ Len(recvSince) = 4
                  /\ recvSince[3] = ACK
                  /\ recvSince[4] = ACK)

\* The global erase was answered 0x1F, and the page erase that followed was
\* acknowledged.
C20_Witness ==
    /\ loc.op = "stmErase"
    /\ main.at = "erased"
    /\ pc = "done"
    /\ result = "true"
    /\ recvSince = << ACK, \H1F, ACK, ACK >>
    /\ Len(sentSince) > Len(globalErase)

\* The last n bytes of s.
lastBytes(s, n) == SubSeq(s, Len(s) - n + 1, Len(s))

\* The XOR of the bytes of s: bit k is set when an odd number of the bytes
\* have it set.
xorOf(s) ==
    LET odd(k) == Cardinality({i \in DOMAIN s : (s[i] \div (2 ^ k)) % 2 = 1})
                      % 2
    IN  odd(0) + 2 * odd(1) + 4 * odd(2) + 8 * odd(3) + 16 * odd(4)
            + 32 * odd(5) + 64 * odd(6) + 128 * odd(7)

\* The number of fillers that brings size to a multiple of 4.
pad4(size) == CHOOSE p \in 0..3 : (size + p) % 4 = 0

fillers(n) == [i \in 1..n |-> \HFF]

\* C12: every data-block frame stmSendBlock has written carries a payload of
\* 1 to 256 bytes, preceded by N = size + pad - 1 with
\* pad = (4 - size mod 4) mod 4 and followed by exactly pad bytes 0xFF and
\* the checksum; N fits a byte and size + pad is a multiple of 4.  The frame
\* follows the WRITE_MEM command frame and the 5 bytes of the address frame.
C12_BlockFrame ==
    /\ pc = "block_n" => loc.block.length \in 1..256
    /\ pc = "block_ack" =>
          LET size == loc.block.length
              pad == pad4(size)
              frame == lastBytes(tx, size + pad + 2)
          IN  /\ size \in 1..256
              /\ Len(loc.block.data) = size
              /\ pad = (4 - (size % 4)) % 4
              /\ (size + pad) % 4 = 0
              /\ Len(tx) >= size + pad + 2 + 7
              /\ SubSeq(lastBytes(tx, size + pad + 2 + 7), 1, 2)
                     = << \H31, \HCE >>
              /\ frame[1] = size + pad - 1
              /\ frame[1] <= 255
              /\ SubSeq(frame, 2, size + 1) = loc.block.data
              /\ SubSeq(frame, size + 2, size + pad + 1) = fillers(pad)

\* A data-block frame with a payload of 3 bytes and one filler has been
\* written.
C12_Witness ==
    /\ pc = "block_ack"
    /\ loc.block.length = 3
    /\ lastBytes(tx, 3)[2] = \HFF

\* The bytes of the page-erase frame stmEraseFlashPages has written, after
\* its command frame.
pageFrame ==
    SubSeq(sentSince,
           (IF loc.op = "stmErase" THEN Len(globalErase) ELSE 0) + 3,
           Len(sentSince))

\* C13: the checksum byte of a frame is the XOR of the bytes of the frame
\* before it: of the 4 address bytes in an address frame, of N, the payload
\* and the fillers in a data-block frame, of the count byte or bytes and of
\* every page-index byte in a page-erase frame of ERASE and of
\* EXTENDED_ERASE.
C13_ChecksumIsXor ==
    /\ pc = "addr_ack" =>
          LET frame == lastBytes(tx, 5)
          IN  frame[5] = xorOf(SubSeq(frame, 1, 4))
    /\ pc = "block_ack" =>
          LET n == loc.block.length + pad4(loc.block.length) + 2
              frame == lastBytes(tx, n)
          IN  frame[n] = xorOf(SubSeq(frame, 1, n - 1))
    /\ (pc = "pages_ack" /\ loc.op \in {"stmErase", "stmEraseFlashPages"}) =>
          LET n == IF cmdSupported(CMD_ERASE) THEN loc.count + 2
                   ELSE 2 * loc.count + 3
          IN  /\ Len(pageFrame) = n
              /\ pageFrame[n] = xorOf(SubSeq(pageFrame, 1, n - 1))

\* The page-erase frame of EXTENDED_ERASE for the 256 pages of a target has
\* been written.
C13_Witness ==
    /\ pc = "pages_ack"
    /\ ~cmdSupported(CMD_ERASE)
    /\ loc.count = 256
    /\ Len(pageFrame) = 515

\* C14: every address passed to stmSendAddr, for a chunk of WRITE_MEM, for a
\* chunk of READ_MEM and for GO, is a multiple of 4: the assertion of
\* stmSendAddr never fails.
C14_AddressesAligned ==
    /\ pc # "abort"
    /\ \A i \in DOMAIN main.addrs : main.addrs[i] % 4 = 0

\* A file of two chunks has been written and verified, and GO has been
\* sent with its address.
C14_Witness ==
    /\ main.at = "ran"
    /\ pc = "addr_ack"
    /\ Len(main.addrs) = 5
    /\ main.addrs[2] = \H08000100

\* The WRITE_MEM transaction of len bytes of data at addr: the command
\* frame, the address frame and the data-block frame.
writeTransaction(addr, bytes) ==
    LET len == Len(bytes)
        a == << (addr \div 16777216) % 256, (addr \div 65536) % 256,
                (addr \div 256) % 256, addr % 256 >>
        block == << len + pad4(len) - 1 >> \o bytes \o fillers(pad4(len))
    IN  << \H31, \HCE >> \o a \o << xorOf(a) >> \o block \o << xorOf(block) >>

\* The transactions of the chunks k, k + 1, ... of a file of the bytes
\* image at flashBegin.
RECURSIVE writeTransactions(_, _, _)
writeTransactions(image, flashBegin, k) ==
    IF 256 * k >= Len(image) THEN <<>>
    ELSE LET len == IF Len(image) - 256 * k < 256 THEN Len(image) - 256 * k
                    ELSE 256
         IN  writeTransaction(flashBegin + 256 * k,
                              SubSeq(image, 256 * k + 1, 256 * k + len))
                 \o writeTransactions(image, flashBegin, k + 1)

\* C15: when stmWrite has written a RAW image of S >= 1 bytes shifted to
\* flashBeginAddr and every frame was acknowledged, it has performed exactly
\* ceil(S / 256) WRITE_MEM transactions in ascending address order, the
\* k-th being {0x31, 0xCE}, the address frame of flashBeginAddr + 256 k and
\* the data-block frame of the min(256, S - 256 k) bytes of the image from
\* position 256 k.  For S = 300 these are 256 bytes at 0x08000000 with
\* N = 0xFF and 44 bytes at 0x08000100 with N = 43.
C15_WriteTransactions ==
    ( /\ loc.op = "stmWrite"
      /\ main.at = "written"
      /\ pc = "done"
      /\ loc.callee = "none"
      /\ result = "true" ) =>
        /\ sentSince = writeTransactions(FileData(main.size), \H08000000, 0)
        /\ Len(recvSince) = 3 * ((main.size + 255) \div 256)
        /\ main.size = 300 =>
              /\ SubSeq(sentSince, 1, 8) = << \H31, \HCE, 8, 0, 0, 0, 8, \HFF >>
              /\ SubSeq(sentSince, 266, 273)
                     = << \H31, \HCE, 8, 0, 1, 0, 9, 43 >>
              /\ Len(sentSince) = 265 + 53

\* The 300-byte file has been written, every frame acknowledged.
C15_Witness ==
    /\ loc.op = "stmWrite"
    /\ main.at = "written"
    /\ pc = "done"
    /\ loc.callee = "none"
    /\ result = "true"
    /\ main.size = 300
    /\ devParams.flashBeginAddr = \H08000000

\* The chunk k (from 0) of the image, and the answer of a target that
\* holds it: the three ACKs of the READ_MEM transaction and the bytes.
chunkOf(image, k) ==
    SubSeq(image, 256 * k + 1,
           IF 256 * (k + 1) < Len(image) THEN 256 * (k + 1) ELSE Len(image))

RECURSIVE goodAnswers(_, _, _)
goodAnswers(image, k, n) ==
    IF k >= n THEN <<>>
    ELSE << ACK, ACK, ACK >> \o chunkOf(image, k) \o goodAnswers(image, k + 1, n)

\* The READ_MEM transactions stmVerify has begun: each writes 9 bytes.
readsBegun == (Len(sentSince) + 8) \div 9

\* The chunks of the image.
chunksOf(size) == (size + 255) \div 256

\* The target answered the READ_MEM of chunk k in full, with bytes that are
\* not those of the image.
badAnswer(image, k) ==
    LET good == goodAnswers(image, 0, k + 1)
    IN  /\ Len(recvSince) >= Len(good)
        /\ SubSeq(recvSince, 1, Len(good) - Len(chunkOf(image, k)))
              = SubSeq(good, 1, Len(good) - Len(chunkOf(image, k)))
        /\ SubSeq(recvSince, 1, Len(good)) # good

\* C16: stmVerify reports failure as soon as one chunk read back differs
\* from the image and sends no READ_MEM after the first mismatch: a READ_MEM
\* is begun only when every chunk before it was read back equal, after a
\* chunk that differs nothing more is written and stmVerify is on its way
\* to return false, and it returns true only if every chunk was read back
\* equal.
C16_VerifyStopsAtMismatch ==
    (loc.op = "stmVerify" /\ main.at = "verified") =>
        LET image == FileData(main.size)
        IN  /\ readsBegun >= 1 =>
                  startsWith(recvSince, goodAnswers(image, 0, readsBegun - 1))
            /\ \A k \in 0..(chunksOf(main.size) - 1) :
                  badAnswer(image, k) =>
                      /\ readsBegun = k + 1
                      /\ \/ pc = "done" /\ loc.callee = "stmReadBlock"
                         \/ pc = "verify_loop" /\ ~loc.ok
                         \/ pc = "done" /\ result = "false"
            /\ (pc = "done" /\ loc.callee = "none" /\ result = "true") =>
                  recvSince = goodAnswers(image, 0, chunksOf(main.size))

\* The second chunk of the 300-byte file was read back with a byte that
\* differs, and stmVerify has returned false.
C16_Witness ==
    /\ loc.op = "stmVerify"
    /\ main.at = "verified"
    /\ main.size = 300
    /\ badAnswer(FileData(300), 1)
    /\ pc = "done"
    /\ loc.callee = "none"
    /\ result = "false"
    /\ ~ioFailed

\* Where stmGetDevParams, stmEraseFlashPages, stmWrite, stmVerify and stmRun
\* wait for an ACK.
AckWaits ==
    {"version_ack", "version_end", "id_ack", "id_end", "pages_cmd_ack",
     "pagesx_cmd_ack", "pages_ack", "wb_cmd_ack", "rb_cmd_ack", "rb_size_ack",
     "run_cmd_ack", "addr_ack", "block_ack"}

\* The step is a call of the serial line that fails, or the read of an
\* answer that is not ACK where one of these operations waits for an ACK.
\* (stmErase's wait for the answer to the global erase is not among them.)
stepFails ==
    \/ ~ioFailed /\ ioFailed' /\ pc # "erase_ack"
    \/ /\ pc \in AckWaits
       /\ Len(rx') = Len(rx) + 1
       /\ rx'[Len(rx')] # ACK

\* C17: after the handshake nothing is retried.  In stmGetDevParams,
\* stmEraseFlashPages, stmWrite, stmVerify and stmRun, the step in which an
\* expected ACK is not received or a call of the serial line fails makes
\* the function at hand return false without writing; a function that
\* returned false has its caller stop: the loop of stmWrite and stmVerify
\* ends and returns false, main exits; and nothing more is written on the
\* way.
C17_NoRetry ==
    [][ /\ stepFails => (pc' = "done" /\ result' = "false" /\ tx' = tx)
        /\ (pc = "done" /\ result = "false") =>
              /\ tx' = tx
              /\ \/ pc' = "exit"
                 \/ pc' \in {"write_loop", "verify_loop"} /\ ~loc'.ok
        /\ (pc \in {"write_loop", "verify_loop"} /\ ~loc.ok) =>
              (pc' = "done" /\ result' = "false" /\ tx' = tx) ]_vars

\* The target answered the data-block frame of the first chunk of the
\* 300-byte file with 0x1F: stmWriteBlock has returned false.
C17_Witness ==
    /\ loc.op = "stmWrite"
    /\ loc.callee = "stmWriteBlock"
    /\ main.size = 300
    /\ pc = "done"
    /\ result = "false"
    /\ ~ioFailed
    /\ recvSince = << ACK, ACK, \H1F >>

(***************************************************************************)
(* Claims about discovery in main.                                         *)
(***************************************************************************)
\* What the target sent in discovery, by its place in rx: the ACK of
\* GET_VERSION, the count n, the version, n opcodes, an ACK, and then the
\* ACK of GET_ID, the id-length byte, two id bytes, an ACK.
listedCount == rx[2]
versionRead ==
    /\ Len(rx) >= 4 + listedCount
    /\ rx[1] = ACK
    /\ rx[4 + listedCount] = ACK
getIdListed == \E k \in 4..(3 + listedCount) : rx[k] = \H02
idLengthRead ==
    /\ versionRead
    /\ getIdListed
    /\ Len(rx) >= 6 + listedCount
    /\ rx[5 + listedCount] = ACK
idLengthByte == rx[6 + listedCount]
idRead ==
    /\ idLengthRead
    /\ idLengthByte = 1
    /\ Len(rx) >= 9 + listedCount
    /\ rx[9 + listedCount] = ACK
productId == rx[7 + listedCount] * 256 + rx[8 + listedCount]

\* stmGetDevParams has returned false, or is about to, and main has called
\* no operation.
discoveryFailed ==
    /\ loc.op = "none"
    /\ \/ pc = "id_send"
       \/ pc \in {"done", "exit"} /\ result = "false"
    /\ main.at = "exit" => ~main.success

\* C11: discovery fails when GET_ID (0x02) is not among the opcodes of the
\* GET_VERSION reply, and then no GET_ID command frame is written; when the
\* id-length byte of the GET_ID reply is not 1; and when the product id is
\* not a row of the geometry table.  After such a failure main writes no
\* command frame of an erase, a write, a read or a go: the bytes written
\* remain those of discovery.
C11_DiscoveryFails ==
    /\ (Len(rx) >= 2 /\ versionRead /\ ~getIdListed) =>
          /\ discoveryFailed
          /\ tx = << \H00, \HFF >>
    /\ (Len(rx) >= 2 /\ idLengthRead /\ idLengthByte # 1) =>
          /\ discoveryFailed /\ pc # "id_send"
          /\ tx = << \H00, \HFF, \H02, \HFD >>
    /\ (Len(rx) >= 2 /\ idRead /\ productId \notin DOMAIN GeometryTable) =>
          /\ discoveryFailed /\ pc # "id_send"
          /\ tx = << \H00, \HFF, \H02, \HFD >>

\* The target sent a product id that is in no row of the table, and main
\* has exited.
C11_Witness ==
    /\ Len(rx) >= 2
    /\ idRead
    /\ productId \notin DOMAIN GeometryTable
    /\ main.at = "exit"
    /\ ~main.success
    /\ tx = << \H00, \HFF, \H02, \HFD >>

(***************************************************************************)
(* Claims about overlap and Node_addData.                                  *)
(***************************************************************************)
\* The ends of the two blocks overlap was called with do not pass the end
\* of size_t.
endsFit ==
    /\ loc.block1.offset + loc.block1.length < SizeMod
    /\ loc.block2.offset + loc.block2.length < SizeMod

\* An address at or after the end of block x and before the start of
\* block y.
between(x, y) ==
    \E a \in 0..(2 * MaxSpan + 1) : x.offset + x.length <= a /\ a < y.offset

\* C29: for blocks (a, la) and (b, lb) whose ends do not overflow, overlap
\* returns true exactly when a <= b + lb and b <= a + la, false exactly when
\* an address lies between the two blocks, and the same for the blocks in
\* the other order.
C29_OverlapTouchOrMeet ==
    (loc.op = "overlap" /\ pc = "done" /\ endsFit) =>
        /\ (result = "true") <=>
              /\ loc.block1.offset <= loc.block2.offset + loc.block2.length
              /\ loc.block2.offset <= loc.block1.offset + loc.block1.length
        /\ (result = "false") <=>
              (between(loc.block1, loc.block2) \/ between(loc.block2, loc.block1))
        /\ (result = "true") <=> overlap(loc.block2, loc.block1)

\* overlap has returned true for two blocks of which the second begins
\* where the first ends.
C29_Witness ==
    /\ loc.op = "overlap"
    /\ pc = "done"
    /\ result = "true"
    /\ loc.block1.length > 0
    /\ loc.block2.length > 0
    /\ loc.block1.offset + loc.block1.length = loc.block2.offset

\* The smaller and the larger of two numbers.
least(x, y) == IF x <= y THEN x ELSE y
most(x, y) == IF x >= y THEN x ELSE y

\* C30: Node_addData(E, N) with N overlapping or touching E leaves E at
\* [min(E.offset, N.offset), max(E.end, N.end)), with N's bytes at N's
\* addresses and E's previous bytes at the other addresses of the old E,
\* and the node's data pointer designates the merged storage.
C30_MergeStored ==
    (loc.op = "Node_addData" /\ pc = "done") =>
        LET E == loc.before.block
            N == loc.block
            M == loc.self.block
        IN  /\ M.offset = least(E.offset, N.offset)
            /\ M.offset + M.length =
                   most(E.offset + E.length, N.offset + N.length)
            /\ loc.self.ptr = "valid"
            /\ Len(M.data) = M.length
            /\ \A a \in blockAddrs(M) :
                  M.data[a - M.offset + 1] =
                      IF a \in blockAddrs(N) THEN N.data[a - N.offset + 1]
                      ELSE E.data[a - E.offset + 1]

(***************************************************************************)
(* Claims about the command table and the discovery scenario.              *)
(***************************************************************************)
\* The opcode c is among the opcode bytes of the GET_VERSION reply.
listed(c) == \E k \in 4..(3 + listedCount) : rx[k] = c

\* The opcodes of the Command enumeration, and those the driver hands to
\* cmdSupported.
KnownOpcodes == {Commands[k] : k \in DOMAIN Commands}
AskedOpcodes ==
    {CMD_GET_ID, CMD_READ_MEM, CMD_WRITE_MEM, CMD_ERASE, CMD_EXTENDED_ERASE}

\* C28: once the GET_VERSION reply is read, cmdSupported(c) holds for an
\* opcode c of the enumeration exactly when c is among the reply's opcode
\* bytes, whatever devParams.commands held before; the twelve opcodes have
\* twelve different indices in 0..11, every other byte has none, and the
\* assertions of cmdIndex (idx < 12) and cmdSupported (idx >= 0) hold.
C28_SupportedIffListed ==
    /\ (Len(rx) >= 2 /\ versionRead) =>
           \A c \in KnownOpcodes : cmdSupported(c) <=> listed(c)
    /\ \A c \in KnownOpcodes : cmdIndex(c) \in 0..(NUM_COMMANDS_KNOWN - 1)
    /\ \A c, d \in KnownOpcodes : cmdIndex(c) = cmdIndex(d) => c = d
    /\ \A b \in (0..255) \ KnownOpcodes : cmdIndex(b) < 0
    /\ \A b \in 0..255 : cmdIndex(b) < NUM_COMMANDS_KNOWN
    /\ \A c \in AskedOpcodes : cmdIndex(c) >= 0

\* The reply listed GET_ID and a byte that is no opcode, to a driver whose
\* table had every entry set: GET_ID is supported, READ_MEM is not.
C28_Witness ==
    /\ Len(rx) >= 2
    /\ versionRead
    /\ listedCount = 2
    /\ listed(\H02)
    /\ listed(\H55)
    /\ pc = "id_ack"
    /\ cmdSupported(CMD_GET_ID)
    /\ ~cmdSupported(CMD_READ_MEM)
    /\ ~cmdSupported(CMD_GET_VERSION)

\* The target has sent the whole reply of the scenario and main has printed
\* the version.
scenarioDone ==
    /\ main.script = MediumDensityReply
    /\ rx = MediumDensityReply
    /\ main.at \in {"file", "erase"}

\* C26 as stated: after the scenario's reply flash_end is 0x08020000, the
\* page size 1024, ERASE is supported and the version printed is 3.4.
C26_ScenarioVersion34 ==
    scenarioDone =>
        /\ devParams.flashEndAddr = \H08020000
        /\ devParams.flashPageSize = 1024
        /\ cmdSupported(CMD_ERASE)
        /\ main.major = 3
        /\ main.minor = 4

\* C26: after the scenario's reply, whose version byte is 0x22, flash_end
\* is 0x08020000, the page size 1024, ERASE is supported, and the version
\* printed is 2.2: the high and the low nibble of the version byte.
C26_ScenarioVersion22 ==
    scenarioDone =>
        /\ result = "true"
        /\ devParams.flashEndAddr = \H08020000
        /\ devParams.flashPageSize = 1024
        /\ devParams.bootloaderVer = \H22
        /\ cmdSupported(CMD_ERASE)
        /\ main.major = 2
        /\ main.minor = 2

C26_Witness ==
    /\ scenarioDone
    /\ tx = << \H00, \HFF, \H02, \HFD >>
    /\ main.major = 2

(***************************************************************************)
(* Claims about main.                                                      *)
(***************************************************************************)
\* The operation op has been called and the opcode it needs is not in the
\* target's list.
lacks(op) ==
    /\ loc.op = op
    /\ Len(rx) >= 2
    /\ versionRead
    /\ CASE op = "stmWrite" -> ~listed(CMD_WRITE_MEM)
         [] op = "stmVerify" -> ~listed(CMD_READ_MEM)
         [] op = "stmEraseFlashPages" ->
               /\ loc.count >= 1
               /\ ~listed(CMD_ERASE)
               /\ ~listed(CMD_EXTENDED_ERASE)
         [] op = "stmErase" ->
               /\ ~listed(CMD_ERASE)
               /\ ~listed(CMD_EXTENDED_ERASE)

\* The operation has written nothing and has returned false, if it has
\* returned, and main then exits with a failure.
failedUnsent(op) ==
    /\ sentSince = <<>>
    /\ pc \in {op, "done", "exit"}
    /\ pc # op => result = "false"
    /\ pc = "exit" => ~main.success

\* C27: stmWrite without WRITE_MEM, stmVerify without READ_MEM,
\* stmEraseFlashPages (count >= 1) and stmErase without ERASE and
\* EXTENDED_ERASE in the target's command list return false and write no
\* byte to the target.
C27_UnsupportedWritesNothing ==
    \A op \in {"stmWrite", "stmVerify", "stmEraseFlashPages", "stmErase"} :
        lacks(op) => failedUnsent(op)

\* stmVerify has returned false on a target without READ_MEM, after the
\* erase and the write went through.
C27_Witness ==
    /\ lacks("stmVerify")
    /\ pc = "done"
    /\ result = "false"
    /\ sentSince = <<>>
    /\ loc.base > 4

\* readFirmware returned NULL and main went to ExitApp.
fileFailed ==
    /\ main.at = "exit"
    /\ main.fileName
    /\ ~main.buffer

\* C22: when the file given with -w cannot be read, main calls no erase,
\* write, verify or go (the bytes written remain those of discovery) and
\* exits with a failure.
C22_FileErrorExits1 ==
    fileFailed =>
        /\ loc.op = "none"
        /\ tx = << \H00, \HFF, \H02, \HFD >>
        /\ ~main.success

\* main has called stmEraseFlashPages for a file written without -e.
pagesCalled ==
    /\ main.at = "erased"
    /\ ~main.erase
    /\ loc.op = "stmEraseFlashPages"

\* C21: for a file written without -e main erases from page 0 exactly the
\* pages that hold bytes of the image: the least count with
\* count * page_size >= size.
C21_ErasesCeilPages ==
    pagesCalled =>
        /\ loc.first = 0
        /\ loc.count * devParams.flashPageSize >= main.size
        /\ (loc.count - 1) * devParams.flashPageSize < main.size

\* The command line has an option getopt does not know (and no -h), a
\* further argument after the options, no action, or -v without -w.
has(opt) == \E k \in DOMAIN main.argv : main.argv[k] = opt
unknownOption == has("x") /\ ~has("h")
argumentsFit ==
    /\ ~has("x")
    /\ ~has("h")
    /\ main.extra = 0
    /\ has("e") \/ has("r") \/ has("w")
    /\ has("w") \/ ~has("v")
argumentError == main.at # "none" /\ ~has("h") /\ ~argumentsFit

\* C25: on an argument error main never opens the device, and it exits
\* with the usage printed and a failure.
C25_ArgumentErrorExits1 ==
    argumentError =>
        /\ main.at \in {"getopt", "checks", "exit"}
        /\ ~main.dev
        /\ dtr = <<>> /\ tx = <<>>
        /\ main.at = "exit" => (main.usage /\ ~main.success)

\* serialOpen has returned NULL to a main whose arguments were in order.
openFailed ==
    /\ argumentsFit
    /\ main.at \in {"connect", "exit"}
    /\ ~main.dev

\* C23: when serialOpen fails, main makes no call on the missing device
\* (stmConnect is not called, nothing is written, DTR is not touched) and
\* exits with a failure.
C23_OpenFailureExits1 ==
    openFailed =>
        /\ main.at = "exit"
        /\ ~main.success
        /\ pc = "exit"
        /\ dtr = <<>> /\ tx = <<>>


(***************************************************************************)
(* Claims about the order of a run.                                        *)
(***************************************************************************)
\* The frame of the command cmd, and the frames an erase phase begins with.
cmdFrame(cmd) == << cmd, 255 - cmd >>

EraseFrames == {cmdFrame(CMD_ERASE), cmdFrame(CMD_EXTENDED_ERASE)}

endsWith(s, p) ==
    Len(s) >= Len(p) /\ SubSeq(s, Len(s) - Len(p) + 1, Len(s)) = p

\* What was written and what was read before main called the operation at
\* hand.
sentBefore == SubSeq(tx, 1, loc.base)
recvBefore == SubSeq(rx, 1, loc.rbase)

\* The handshake and the discovery: the bytes they write, and the number
\* of bytes they read from a target that lists rx[3] commands.
openingFrames == << \H7F >> \o discoveryFrames
openingAnswers == rx[3] + 10

\* The operation at hand began with the frame of one of cmds, as far as it
\* has written two bytes.
beganWith(cmds) ==
    Len(sentSince) >= 2 => SubSeq(sentSince, 1, 2) \in {cmdFrame(c) : c \in cmds}

\* The erase phase came right after the discovery and its last answer was
\* an ACK read after those of the discovery.
eraseAcked ==
    /\ Len(sentBefore) >= Len(openingFrames) + 2
    /\ SubSeq(sentBefore, Len(openingFrames) + 1, Len(openingFrames) + 2)
           \in EraseFrames
    /\ loc.rbase > openingAnswers
    /\ rx[loc.rbase] = ACK

\* The WRITE_MEM transactions of the whole file, and the answers of a
\* target that holds the file to the READ_MEM transactions of stmVerify.
allWrites == writeTransactions(FileData(main.size), devParams.flashBeginAddr, 0)
allReadBack == goodAnswers(FileData(main.size), 0, chunksOf(main.size))

\* The write phase wrote every chunk and its last answer was an ACK, the
\* bytes written since being those of later, 9 per READ_MEM transaction.
writeDone(later) ==
    /\ endsWith(SubSeq(sentBefore, 1, Len(sentBefore) - later), allWrites)
    /\ later = 0 => rx[loc.rbase] = ACK

\* C24: on a run the wire activity follows the order handshake,
\* GET_VERSION, GET_ID, erase (global or by pages), every WRITE_MEM chunk,
\* every READ_MEM chunk (only with -v), GO.  A phase starts only after the
\* phase asked for before it returned success: no WRITE_MEM is sent before
\* the erase phase was acknowledged, stmVerify is called only after all
\* the chunks were written and acknowledged, stmRun only after the chunks
\* were written and, with -v, read back equal.  After the address frame of
\* GO nothing more is written.
C24_WireOrder ==
    /\ startsWith(tx, openingFrames)
    /\ (main.erase \/ main.fileName) /\ Len(tx) >= Len(openingFrames) + 2 =>
          SubSeq(tx, Len(openingFrames) + 1, Len(openingFrames) + 2)
              \in EraseFrames
    /\ loc.op \in {"stmErase", "stmEraseFlashPages"} =>
          /\ sentBefore = openingFrames
          /\ beganWith({CMD_ERASE, CMD_EXTENDED_ERASE})
    /\ loc.op = "stmWrite" =>
          /\ eraseAcked
          /\ beganWith({CMD_WRITE_MEM})
    /\ loc.op = "stmVerify" =>
          /\ main.verify
          /\ writeDone(0)
          /\ beganWith({CMD_READ_MEM})
    /\ loc.op = "stmRun" =>
          /\ main.run
          /\ ~main.buffer /\ ~main.erase => sentBefore = openingFrames
          /\ ~main.buffer /\ main.erase => eraseAcked
          /\ main.buffer /\ ~main.verify => writeDone(0)
          /\ main.buffer /\ main.verify =>
                /\ writeDone(9 * chunksOf(main.size))
                /\ endsWith(recvBefore, allReadBack)
          /\ startsWith(cmdFrame(CMD_GO) \o addrBuffer(devParams.flashBeginAddr),
                        sentSince)

(***************************************************************************)
(* Claims about the cursor of the sparse image.                            *)
(***************************************************************************)
\* The step is a SparseBuffer_read(length), through a live cursor or through
\* one that designates a freed node.
readStep(length) ==
    \/ SparseBuffer_read(length)
    \/ \E o \in {"sentinel", "chunk", "abort"} : SparseBuffer_readFreed(length, o)

\* The end of the block of the cursor, and whether the cursor has read it
\* all.
cursorEnd == (nodes[curr].block.offset + nodes[curr].block.length) % SizeMod
exhausted == pos >= cursorEnd

\* What the claim says of a read of length that returns the chunk lastRead'.
chunkOk(length) ==
    /\ length >= 1 => lastRead'.length \in 1..length
    /\ \E i \in DOMAIN Blocks :
          /\ Blocks[i].offset <= lastRead'.offset
          /\ lastRead'.offset + lastRead'.length
                <= Blocks[i].offset + Blocks[i].length
    /\ pos' = lastRead'.offset + lastRead'.length
    /\ IF curr = Dangling THEN lastRead'.offset = pos
       ELSE IF exhausted
          THEN /\ curr' = nodes[curr].next[0]
               /\ lastRead'.offset = nodes[curr'].block.offset
          ELSE /\ curr' = curr
               /\ lastRead'.offset = pos
    /\ (length = 0 /\ curr' # Dangling) =>
          lastRead'.offset + lastRead'.length
              = nodes[curr'].block.offset + nodes[curr'].block.length

\* C31: a SparseBuffer_read(length) that does not return the sentinel
\* returns a chunk of 1..length bytes (length >= 1) that starts at the
\* cursor, lies inside one stored block and advances the cursor by its
\* length; the cursor moves to the next block only when its block is
\* exhausted, and read(0) returns the remainder of the block.
C31_ReadWithinBlock ==
    [][\A length \in 0..ChunkLen :
          (readStep(length) /\ lastRead'.kind = "chunk") => chunkOk(length)]_vars

\* What the claim says of a SparseBuffer_offset(delta) step.
shiftOk(delta) ==
    /\ DOMAIN nodes' = DOMAIN nodes
    /\ \A n \in DOMAIN nodes :
          /\ nodes'[n].block.offset = (nodes[n].block.offset + delta) % SizeMod
          /\ nodes'[n].block.length = nodes[n].block.length
          /\ nodes'[n].block.data = nodes[n].block.data
          /\ nodes'[n].next = nodes[n].next
    /\ Len(Blocks') = Len(Blocks)
    /\ \A i, j \in DOMAIN Blocks :
          Blocks'[i].offset < Blocks'[j].offset
              <=> Blocks[i].offset < Blocks[j].offset
    /\ curr' = curr
    /\ pos' = (pos + delta) % SizeMod
    /\ curr # Dangling =>
          /\ (pos' - nodes'[curr].block.offset) % SizeMod
                = (pos - nodes[curr].block.offset) % SizeMod
          /\ \A length \in 0..ChunkLen :
                LET r == readResult(nodes, curr, pos, length)
                    q == readResult(nodes', curr', pos', length)
                IN  /\ q.sentinel = r.sentinel
                    /\ q.node = r.node
                    /\ q.length = r.length
                    /\ ~r.sentinel =>
                          /\ q.offset = (r.offset + delta) % SizeMod
                          /\ (q.offset - nodes'[q.node].block.offset) % SizeMod
                                = (r.offset - nodes[r.node].block.offset) % SizeMod

legacyByte(first, count, k) ==
    IF k = 1 THEN count - 1 ELSE first + k - 2

extendedByte(first, count, k) ==
    LET v == IF k <= 2 THEN count - 1 ELSE first + ((k - 3) \div 2)
    IN  IF k % 2 = 1 THEN v \div 256 ELSE v % 256

\* The frame written so far is the beginning of the frame of count pages
\* from first, body bytes long before the checksum.
frameOf(byteAt(_), body) ==
    /\ Len(pageFrame) <= body + 1
    /\ \A k \in DOMAIN pageFrame :
          pageFrame[k] = IF k <= body THEN byteAt(k)
                         ELSE xorOf(SubSeq(pageFrame, 1, body))
    /\ pc = "pages_ack" => Len(pageFrame) = body + 1

\* C33: stmEraseFlashPages(first, count) with count >= 1 sends ERASE
\* (0x43, 0xBC) whenever the target lists ERASE and EXTENDED_ERASE
\* (0x44, 0xBB) only otherwise.  After the command frame it writes, for
\* ERASE, the byte count - 1 and the count page indices first ..
\* first + count - 1 as single bytes in ascending order, for EXTENDED_ERASE
\* count - 1 and the same indices as big-endian 16-bit values, then one
\* checksum byte, and nothing more; three pages from 0 with ERASE are
\* 0x02, 0x00, 0x01, 0x02 and the checksum 0x01.
C33_PageEraseFrame ==
    (loc.op = "stmEraseFlashPages" /\ loc.count >= 1 /\ sentSince # <<>>) =>
        /\ Len(sentSince) >= 2
        /\ IF cmdSupported(CMD_ERASE)
           THEN /\ SubSeq(sentSince, 1, 2) = << \H43, \HBC >>
                /\ frameOf(LAMBDA k : legacyByte(loc.first, loc.count, k),
                           loc.count + 1)
                /\ (loc.first = 0 /\ loc.count = 3 /\ pc = "pages_ack") =>
                      pageFrame = << 2, 0, 1, 2, 1 >>
           ELSE /\ cmdSupported(CMD_EXTENDED_ERASE)
                /\ SubSeq(sentSince, 1, 2) = << \H44, \HBB >>
                /\ frameOf(LAMBDA k : extendedByte(loc.first, loc.count, k),
                           2 * loc.count + 2)

(***************************************************************************)
(* Claims about the heights of the nodes.                                  *)
(***************************************************************************)
\* C34: the blocks of the image after a sequence of SparseBuffer_set calls,
\* with their offsets, lengths and bytes, do not depend on the heights
\* randomHeight drew: two images given the same calls hold the same list of
\* blocks, whatever the heights of their nodes.
C34_HeightsDoNotMatter == blocksOf(nodes) = blocksOf(loc.other)

(***************************************************************************)
(* Claims about the image during the write and the verification.           *)
(***************************************************************************)
\* The READ_MEM transaction of len bytes at addr as far as stmReadBlock
\* writes: the command frame, the address frame and the frame of len - 1.
readTransaction(addr, len) ==
    << \H11, \HEE >> \o addrBuffer(addr) \o << len - 1, 255 - (len - 1) >>

\* The address and the size of the chunk k (from 0) of a file of size bytes
\* at flashBegin.
chunkAddr(flashBegin, k) == flashBegin + 256 * k
chunkSize(size, k) == IF size - 256 * k < 256 THEN size - 256 * k ELSE 256

\* The READ_MEM transactions of the chunks k, k + 1, ... of the file.
RECURSIVE readTransactions(_, _, _)
readTransactions(size, flashBegin, k) ==
    IF 256 * k >= size THEN <<>>
    ELSE readTransaction(chunkAddr(flashBegin, k), chunkSize(size, k))
             \o readTransactions(size, flashBegin, k + 1)

\* The WRITE_MEM transactions of the same chunks, by address and size.
RECURSIVE sameChunksWritten(_, _, _, _)
sameChunksWritten(image, flashBegin, k, bytes) ==
    IF 256 * k >= Len(image) THEN bytes = <<>>
    ELSE LET w == writeTransaction(chunkAddr(flashBegin, k),
                                   SubSeq(image, 256 * k + 1,
                                          256 * k + chunkSize(Len(image), k)))
         IN  /\ startsWith(bytes, w)
             /\ sameChunksWritten(image, flashBegin, k + 1,
                                  SubSeq(bytes, Len(w) + 1, Len(bytes)))

\* stmVerify has returned true.
verified ==
    /\ loc.op = "stmVerify"
    /\ pc = "done"
    /\ loc.callee = "none"
    /\ result = "true"

\* C35: stmWrite and stmVerify change nothing of the image but its cursor:
\* the block of the file keeps its offset, length and bytes.  A stmVerify
\* that follows a stmWrite acknowledged in full asks with READ_MEM for the
\* chunks stmWrite sent with WRITE_MEM, the same addresses and sizes in the
\* same order, each as the command frame, the address frame and the frame
\* {size - 1, ~(size - 1)}, and reads exactly size bytes after the three
\* ACKs of each.
C35_VerifyReadsWhatWasWritten ==
    (loc.op \in {"stmWrite", "stmVerify"}) =>
        /\ Blocks = << [offset |-> devParams.flashBeginAddr,
                        length |-> main.size,
                        data |-> FileData(main.size)] >>
        /\ loc.op = "stmVerify" =>
              LET reads == readTransactions(main.size,
                                            devParams.flashBeginAddr, 0)
                  writes == SubSeq(sentBefore,
                                   Len(sentBefore) - Len(allWrites) + 1,
                                   Len(sentBefore))
              IN  /\ pc = "stmVerify" =>
                        /\ Len(sentBefore) >= Len(allWrites)
                        /\ sameChunksWritten(FileData(main.size),
                                             devParams.flashBeginAddr, 0,
                                             writes)
                  /\ startsWith(reads, sentSince)
                  /\ verified =>
                        /\ sentSince = reads
                        /\ recvSince = allReadBack
                        /\ Len(recvSince) = main.size + 3 * chunksOf(main.size)

\* stmVerify has returned true for the 300-byte file, after its two chunks
\* were written and read back.
C35_Witness ==
    /\ verified
    /\ main.size = 300
    /\ devParams.flashBeginAddr = \H08000000
    /\ curr # begin


(***************************************************************************)
(* C36: every chunk the write and verify loops hand to stmWriteBlock and   *)
(* stmReadBlock has a length between 1 and MAX_BLOCK_SIZE, for every file  *)
(* readFirmware loads, the empty file included: the assertion of           *)
(* stmSendBlock does not fail, no READ_MEM asks for 0 bytes, and the       *)
(* progress bar is not computed from a buffer size of 0.                   *)
(***************************************************************************)
\* A chunk is in the hands of stmWriteBlock or stmReadBlock.
chunkHanded == loc.callee \in {"stmWriteBlock", "stmReadBlock"}

C36_ChunksOfOneTo256 ==
    /\ pc # "abort"
    /\ chunkHanded =>
          /\ loc.block.length >= 1
          /\ loc.block.length <= MAX_BLOCK_SIZE
          /\ SparseBuffer_size > 0


(***************************************************************************)
(* C37: every WRITE_MEM chunk the program sends lies in the flash of the   *)
(* part discovered, flashBeginAddr <= address and address + size <=        *)
(* flashEndAddr, whatever the size of the file: nothing of an image longer *)
(* than the flash is written past flashEndAddr.                            *)
(***************************************************************************)
\* The WRITE_MEM command, the address and the block of a chunk have been
\* sent.
chunkSent == loc.callee = "stmWriteBlock" /\ pc = "block_ack"

C37_WritesInsideFlash ==
    chunkSent =>
        /\ devParams.flashBeginAddr <= loc.addr
        /\ loc.addr + loc.block.length <= devParams.flashEndAddr


(***************************************************************************)
(* Claims about the pages erased before a write.                           *)
(***************************************************************************)
\* What main had written after the discovery when it called the operation
\* at hand: the frames of its erase phase.
erasePhase == SubSeq(sentBefore, Len(openingFrames) + 1, Len(sentBefore))

\* The page indices of the page-erase frame in erasePhase: after the
\* command frame and the count, single bytes up to the checksum for ERASE
\* and big-endian pairs for EXTENDED_ERASE; none when no such frame was
\* written.
erasedPages ==
    IF startsWith(erasePhase, cmdFrame(CMD_ERASE))
    THEN {erasePhase[k] : k \in 4..(Len(erasePhase) - 1)}
    ELSE IF startsWith(erasePhase, cmdFrame(CMD_EXTENDED_ERASE))
    THEN {erasePhase[2 * j + 3] * 256 + erasePhase[2 * j + 4] :
             j \in 1..((Len(erasePhase) - 5) \div 2)}
    ELSE {}

\* The flash page of the address a.
pageOf(a) == (a - devParams.flashBeginAddr) \div devParams.flashPageSize

\* stmWrite, called for a file given without -e, has written the WRITE_MEM
\* frame of a chunk.
writeBegun ==
    /\ ~main.erase
    /\ loc.op = "stmWrite"
    /\ loc.callee = "stmWriteBlock"
    /\ pc # "stmWriteBlock"
    /\ sentSince # <<>>

\* C38: when a file is written without -e, every address a WRITE_MEM chunk
\* writes lies in a page whose index is in the page-erase frame the target
\* acknowledged earlier in the run, the frame of the pages 0 ..
\* numPages - 1, page p being flashBeginAddr + p * flashPageSize ..
\* flashBeginAddr + (p + 1) * flashPageSize - 1; no WRITE_MEM is sent when
\* the page erase was not acknowledged.
C38_WritesInErasedPages ==
    writeBegun =>
        /\ eraseAcked
        /\ \A a \in loc.addr..(loc.addr + loc.block.length - 1) :
               pageOf(a) \in erasedPages
====
